---- MODULE Spec2Model ----
(***************************************************************************)
(* A model of diesel/protocols/redis.py: the reply decoder, the            *)
(* transaction context manager (RedisTransaction), the distributed lock    *)
(* (RedisLock) and the subscription hub (RedisSubHub), each run against a  *)
(* model of the Redis server's documented behaviour for the commands the   *)
(* code sends.                                                             *)
(*                                                                         *)
(* Every command method is `_send` followed by `_get_response`: one        *)
(* synchronous request/reply pair.  The server is single-threaded, so a    *)
(* command of one connection is one atomic step, and steps of different    *)
(* connections interleave freely.                                          *)
(***************************************************************************)
EXTENDS Integers, Sequences, FiniteSets, TLC

(***************************************************************************)
(* Bounds of the model.                                                    *)
(***************************************************************************)
\* number of client connections to the server
NumClients == 2
\* commands a transaction body queues at most
MaxQueued == 2
\* the longest lease (RedisLock.timeout) tried, in time units
MaxTimeout == 3
\* renewal tasks alive at once for one lock object
MaxTouch == 2

\* messages published while the hub runs
MaxPublish == 2
\* command-method calls made on the command connection
MaxCalls == 3
\* bytes in a payload handed to the encoder
MaxLen == 2
MaxName == 2
\* RedisLock.__init__: assert timeout >= 2
MinTimeout == 2
\* ticks per time unit: the 2 of `sleep(self.timeout / 2)`
TicksPerUnit == 2
\* the longest lease in ticks: no sleep and no expiry lies further ahead
MaxSleep == MaxTimeout * TicksPerUnit

Clients == 1..NumClients
\* the clients that open transaction scopes; every client may write keys directly
Transactors == {1}
Keys == {"k1", "k2"}
\* the byte strings clients store
Values == {"v1"}
\* the store's marker for a key that does not exist
NoKey == "<absent>"
\* exceptions a transaction body may raise
BodyFaults == {"ValueError", "KeyError"}

VARIABLES
    srv,              \* the Redis server: data, expiries, per-connection WATCH/MULTI state
    decode_responses, \* RedisClient.decode_responses
    tpc,              \* per client: where it is in the life of its RedisTransaction
    t_watching,       \* RedisTransaction.watching
    t_value,          \* RedisTransaction.value
    t_aborted,        \* RedisTransaction.aborted
    raised,           \* the exception that left the scope ("none" if none)
    body_exc,         \* the exception the body raised ("none" if none)
    cmd_log,          \* the commands the client sent for its current transaction
    body_cmds,        \* the commands the body queued, in order
    modified,         \* history: a watched key was written by another client since WATCH
    lease,            \* RedisLock.timeout, in time units
    lpc,              \* per client: where it is in RedisLock.__enter__ / __exit__
    in_block,         \* RedisLock.in_block
    touch,            \* per lock: the renewal tasks alive, by the ticks left of their sleep
    overlap,          \* history: another client acquired the lock during this attempt
    held_ticks,       \* history: ticks since the lock was acquired, while it is held
    track,            \* the two histories below are kept (not in SpecLock, which reads none)
    seen,             \* history: the tokens that acquisitions have stored so far
    clean             \* history: the key was absent at this attempt's WATCH and no other
                      \* client has written it since

\* what only the transaction scopes of SpecTxn use
scopeVars == <<tpc, body_exc, body_cmds, modified>>
\* the RedisTransaction object and what its connection sent
txnVars == <<t_watching, t_value, t_aborted, raised, cmd_log>>
histVars == <<track, seen, clean>>
lockVars == <<lease, lpc, in_block, touch, overlap, held_ticks, histVars>>

VARIABLES
    sub_adds,         \* RedisSubHub.sub_adds: pending (channel, queue) additions
    sub_rms,          \* RedisSubHub.sub_rms: pending (channel, queue) removals
    subs,             \* RedisSubHub.subs: channel -> set of queues ({}: not a key)
    hpc,              \* where the hub's loop is
    suspended,        \* the hub's task is at a suspension point (a write, or its wait)
    woken,            \* sub_wake_signal was fired at the waiting hub
    inbox,            \* replies on their way to the hub's connection, in order
    schan,            \* channels the server has subscribed for the hub's connection
    spat,             \* patterns the server has subscribed for the hub's connection
    queue,            \* per queue: what was put on it, in order
    ppc,              \* per producer: idle, open (inside sub/subq), closed
    pcls,             \* per producer: the classes it asked for
    npub,             \* messages published so far
    unrouted          \* messages the hub took whose key was not in subs

hubVars == <<sub_adds, sub_rms, subs, hpc, suspended, woken, inbox, schan, spat,
             queue, ppc, pcls, npub, unrouted>>

VARIABLES
    pending,          \* a command connection: the replies sent to it and not yet read
    nsent,            \* commands written to that connection so far
    last              \* the last command-method call on it, and how it ended

chanVars == <<pending, nsent, last>>

VARIABLES
    wire,             \* the bytes that have arrived on a connection and are not yet read
    tail,             \* of those, the bytes that follow the reply being read
    request,          \* the bytes _send wrote for the last command
    argument,         \* the argument that command was given
    served,           \* the reply the server wrote
    response,         \* how _get_response ended: exception, value, bytes left unread
    cpc               \* where the exchange is: idle, sent, replied, done

codecVars == <<wire, tail, request, argument, served, response, cpc>>

VARIABLES
    gname,            \* the name of a subscription request the hub drains
    gcmd,             \* the command the hub sent for it
    gpc               \* idle, added (the addition drained), removed (the removal drained)

globVars == <<gname, gcmd, gpc>>
\* the command connection and the codec on their own
ioVars == <<chanVars, codecVars, globVars>>
vars == <<srv, decode_responses, scopeVars, txnVars, lockVars, hubVars, ioVars>>

(***************************************************************************)
(* Python values, as the decoder returns them.                             *)
(***************************************************************************)
PyNone == [t |-> "None", s |-> "", n |-> 0, l |-> <<>>]
PyBytes(s) == [t |-> "bytes", s |-> s, n |-> 0, l |-> <<>>]
PyStr(s) == [t |-> "str", s |-> s, n |-> 0, l |-> <<>>]
PyInt(n) == [t |-> "int", s |-> "", n |-> n, l |-> <<>>]
PyList(l) == [t |-> "list", s |-> "", n |-> 0, l |-> l]

\* Python's truth value: None, empty bytes or text, 0 and the empty list are false
Falsy(v) ==
    \/ v.t = "None"
    \/ (v.t \in {"bytes", "str"} /\ v.s = "")
    \/ (v.t = "int" /\ v.n = 0)
    \/ (v.t = "list" /\ v.l = <<>>)

\* a variant of the test that is inverted (`if not v`)
Truthy_Inverted(v) == Falsy(v)

\* `if v`
Truthy(v) == ~Falsy(v)

(***************************************************************************)
(* Replies on the wire, by their leading byte.                             *)
(***************************************************************************)
Status(s) == [k |-> "+", s |-> s, n |-> 0, nil |-> FALSE, e |-> <<>>]
Error(s) == [k |-> "-", s |-> s, n |-> 0, nil |-> FALSE, e |-> <<>>]
Integer(n) == [k |-> ":", s |-> "", n |-> n, nil |-> FALSE, e |-> <<>>]
Bulk(s) == [k |-> "$", s |-> s, n |-> 0, nil |-> FALSE, e |-> <<>>]
NilBulk == [k |-> "$", s |-> "", n |-> 0, nil |-> TRUE, e |-> <<>>]
Array(e) == [k |-> "*", s |-> "", n |-> 0, nil |-> FALSE, e |-> e]
NilArray == [k |-> "*", s |-> "", n |-> 0, nil |-> TRUE, e |-> <<>>]

(***************************************************************************)
(* The charset.  A byte is a one-element string; a byte string is kept as  *)
(* the concatenation of its bytes.  xC3 xA9 is the UTF-8 encoding of the   *)
(* one character written e_acute; xFF is valid nowhere in UTF-8; every     *)
(* other byte is ASCII and stands for itself.                              *)
(***************************************************************************)
CR == "\r"
LF == "\n"
\* the bytes payloads are made of
PayloadBytes == {"a", CR, LF, "xC3", "xA9", "xFF"}
\* the characters texts are made of
TextChars == {"a", CR, LF, "e_acute"}

\* the sequences over S of length at most n
SeqsUpTo(S, n) == UNION {[1..k -> S] : k \in 0..n}

\* a sequence of bytes (or of characters) as one string
RECURSIVE ToStr(_)
ToStr(b) == IF b = <<>> THEN "" ELSE Head(b) \o ToStr(Tail(b))

\* str.encode('utf-8'): the bytes of a text
RECURSIVE Utf8Encode(_)
Utf8Encode(text) ==
    IF text = <<>> THEN <<>>
    ELSE (IF Head(text) = "e_acute" THEN <<"xC3", "xA9">> ELSE <<Head(text)>>)
         \o Utf8Encode(Tail(text))

\* bytes.decode('utf-8'): the text of a byte sequence, or failure
RECURSIVE Utf8Decode(_)
Utf8Decode(b) ==
    IF b = <<>> THEN [ok |-> TRUE, text |-> <<>>]
    ELSE IF Head(b) = "xC3"
    THEN IF Len(b) >= 2 /\ b[2] = "xA9"
         THEN LET r == Utf8Decode(Tail(Tail(b)))
              IN [ok |-> r.ok, text |-> <<"e_acute">> \o r.text]
         ELSE [ok |-> FALSE, text |-> <<>>]
    ELSE IF Head(b) \in {"xA9", "xFF"} THEN [ok |-> FALSE, text |-> <<>>]
    ELSE LET r == Utf8Decode(Tail(b))
         IN [ok |-> r.ok, text |-> <<Head(b)>> \o r.text]

\* the payloads of the model
ByteSeqs == SeqsUpTo(PayloadBytes, MaxLen)

\* bytes.decode on byte strings: the payloads decode as above, any other byte
\* string of the model is ASCII and decodes to the same characters
DecodeTable == [s \in {ToStr(b) : b \in ByteSeqs} |->
                   LET b == CHOOSE x \in ByteSeqs : ToStr(x) = s
                   IN [ok |-> Utf8Decode(b).ok, text |-> ToStr(Utf8Decode(b).text)]]
Decoded(s) == IF s \in DOMAIN DecodeTable THEN DecodeTable[s] ELSE [ok |-> TRUE, text |-> s]

(***************************************************************************)
(* The byte stream of a connection and the reads _get_response makes on    *)
(* it.                                                                     *)
(***************************************************************************)
\* the elements of a sequence
Range(f) == {f[i] : i \in DOMAIN f}

DigitChars == <<"0", "1", "2", "3", "4", "5", "6", "7", "8", "9">>
\* bytes.strip() removes these from both ends
Whitespace == {" ", CR, LF}

\* the decimal digits of a natural number, and `'%s' % n` for an integer
RECURSIVE NatDigits(_)
NatDigits(n) ==
    IF n < 10 THEN <<DigitChars[n + 1]>> ELSE NatDigits(n \div 10) \o <<DigitChars[(n % 10) + 1]>>
IntDigits(n) == IF n < 0 THEN <<"-">> \o NatDigits(0 - n) ELSE NatDigits(n)

\* bytes.strip()
RECURSIVE LStrip(_)
LStrip(b) == IF b # <<>> /\ Head(b) \in Whitespace THEN LStrip(Tail(b)) ELSE b
RECURSIVE RStrip(_)
RStrip(b) ==
    IF b # <<>> /\ b[Len(b)] \in Whitespace THEN RStrip(SubSeq(b, 1, Len(b) - 1)) ELSE b
strip(b) == RStrip(LStrip(b))

\* the value of a sequence of decimal digits
RECURSIVE DigitsValue(_, _)
DigitsValue(b, acc) ==
    IF b = <<>> THEN acc
    ELSE DigitsValue(Tail(b), 10 * acc + ((CHOOSE d \in 1..10 : DigitChars[d] = Head(b)) - 1))

\* int(b): white space around the number is ignored, a sign may lead, at least one
\* digit must follow and nothing else; anything else is a ValueError
int(b) ==
    LET t == strip(b)
        signed == t # <<>> /\ Head(t) \in {"-", "+"}
        digits == IF signed THEN Tail(t) ELSE t
    IN IF digits = <<>> \/ \E i \in DOMAIN digits : digits[i] \notin Range(DigitChars)
       THEN [ok |-> FALSE, n |-> 0]
       ELSE [ok |-> TRUE,
             n |-> IF signed /\ Head(t) = "-" THEN 0 - DigitsValue(digits, 0)
                   ELSE DigitsValue(digits, 0)]

\* until_eol(): the bytes up to the first CR LF, and what follows the CR LF;
\* not ok when no CR LF has arrived
until_eol(buf) ==
    IF \E i \in 1..(Len(buf) - 1) : buf[i] = CR /\ buf[i + 1] = LF
    THEN LET i == CHOOSE j \in 1..(Len(buf) - 1) :
                     /\ buf[j] = CR /\ buf[j + 1] = LF
                     /\ \A h \in 1..(j - 1) : ~(buf[h] = CR /\ buf[h + 1] = LF)
         IN [ok |-> TRUE, line |-> SubSeq(buf, 1, i - 1), rest |-> SubSeq(buf, i + 2, Len(buf))]
    ELSE [ok |-> FALSE, line |-> <<>>, rest |-> buf]

\* receive(l): exactly l bytes, and what follows them; not ok when fewer have arrived
receive(l, buf) ==
    IF l <= Len(buf)
    THEN [ok |-> TRUE, data |-> SubSeq(buf, 1, l), rest |-> SubSeq(buf, l + 1, Len(buf))]
    ELSE [ok |-> FALSE, data |-> <<>>, rest |-> buf]

(***************************************************************************)
(* RedisClient._decode_response and RedisClient._get_response.             *)
(***************************************************************************)
\* an exception on its way out of a function
PyRaise(e) == [t |-> "raise", s |-> e, n |-> 0, l |-> <<>>]

\* bytes become text when decode_responses is set (resp.decode raises on bytes that
\* are not valid in the charset); anything else is returned as is
_decode_response(resp, decode) ==
    IF resp.t = "bytes" /\ decode
    THEN IF Decoded(resp.s).ok THEN PyStr(Decoded(resp.s).text)
         ELSE PyRaise("UnicodeDecodeError")
    ELSE resp

\* one element of an array reply: '$', ':' or '+' (the assert admits nothing else)
DecodeElement(hl, decode) ==
    IF hl.k = "$"
    THEN IF hl.nil THEN PyNone ELSE _decode_response(PyBytes(hl.s), decode)
    ELSE IF hl.k = ":" THEN PyInt(hl.n)
    ELSE _decode_response(PyBytes(hl.s), decode)

\* what a function hands back: the exception raised ("none" if none) and the value
Returned(v) ==
    IF v.t = "raise" THEN [exc |-> v.s, v |-> PyNone] ELSE [exc |-> "none", v |-> v]

\* the elements of an array reply are read in order: the first that is of no
\* admitted kind fails the assert, the first that cannot be decoded raises
ElementFails(hl, decode) ==
    hl.k \notin {"$", ":", "+"} \/ DecodeElement(hl, decode).t = "raise"

\* the result of one call: the exception raised ("none" if none) and the value
_get_response(fl, decode) ==
    IF fl.k = "+" THEN Returned(_decode_response(PyBytes(fl.s), decode))
    ELSE IF fl.k = "$"
    THEN IF fl.nil THEN [exc |-> "none", v |-> PyNone]
         ELSE Returned(_decode_response(PyBytes(fl.s), decode))
    ELSE IF fl.k = "*"
    THEN IF fl.nil THEN [exc |-> "none", v |-> PyNone]
         ELSE IF \E i \in 1..Len(fl.e) : ElementFails(fl.e[i], decode)
         THEN LET i == CHOOSE j \in 1..Len(fl.e) :
                          /\ ElementFails(fl.e[j], decode)
                          /\ \A h \in 1..(j - 1) : ~ElementFails(fl.e[h], decode)
              IN [exc |-> IF fl.e[i].k \notin {"$", ":", "+"} THEN "AssertionError"
                          ELSE "UnicodeDecodeError",
                  v |-> PyNone]
         ELSE [exc |-> "none",
               v |-> PyList([i \in 1..Len(fl.e) |-> DecodeElement(fl.e[i], decode)])]
    ELSE IF fl.k = ":" THEN [exc |-> "none", v |-> PyInt(fl.n)]
    ELSE IF fl.k = "-" THEN [exc |-> "RedisError", v |-> PyNone]
    ELSE [exc |-> "none", v |-> PyNone]

(***************************************************************************)
(* _get_response on the bytes of a connection: the reads it makes give the *)
(* reply (ReadReply), its dispatch on the leading byte gives the value.    *)
(***************************************************************************)
\* a reply with a leading byte of no known kind
Unknown(c, s) == [k |-> c, s |-> s, n |-> 0, nil |-> FALSE, e |-> <<>>]
Failed(exc, buf) == [exc |-> exc, fl |-> Unknown("", ""), rest |-> buf]
Read(fl, buf) == [exc |-> "none", fl |-> fl, rest |-> buf]

\* a variant without the test for -1: the nil bulk string reads as an empty one
ReadBulk_NilIsEmpty(header, buf) ==
    LET l == int(header)
    IN IF ~l.ok \/ l.n < -1 THEN Failed("ValueError", buf)
       ELSE LET data == receive(IF l.n = -1 THEN 0 ELSE l.n, buf)
                eol == IF l.n = -1 THEN [ok |-> TRUE, rest |-> buf] ELSE until_eol(data.rest)
            IN IF ~data.ok \/ ~eol.ok THEN Failed("ConnectionClosed", buf)
               ELSE Read(Bulk(ToStr(data.data)), eol.rest)

\* '$<l>': None for -1, else receive(l) and one more until_eol(); the transport
\* refuses a negative count
ReadBulk(header, buf) ==
    LET l == int(header)
    IN IF ~l.ok \/ l.n < -1 THEN Failed("ValueError", buf)
       ELSE IF l.n = -1 THEN Read(NilBulk, buf)
       ELSE LET data == receive(l.n, buf)
                eol == until_eol(data.rest)
            IN IF ~data.ok \/ ~eol.ok THEN Failed("ConnectionClosed", buf)
               ELSE Read(Bulk(ToStr(data.data)), eol.rest)

\* the loop over range(count): hl = until_eol(), c_hl its first byte; an element of
\* another kind than '$', ':', '+' ends the reading (the assert fails on it), and
\* so does one that cannot be decoded
RECURSIVE ReadElements(_, _, _, _)
ReadElements(count, buf, acc, decode) ==
    IF count <= 0 THEN Read(Array(acc), buf)
    ELSE LET hl == until_eol(buf)
         IN IF ~hl.ok THEN Failed("ConnectionClosed", buf)
            ELSE IF hl.line = <<>> THEN Failed("IndexError", hl.rest)
            ELSE IF Head(hl.line) = "$"
            THEN LET b == ReadBulk(Tail(hl.line), hl.rest)
                 IN IF b.exc # "none" THEN b
                    ELSE IF ElementFails(b.fl, decode)
                    THEN Read(Array(Append(acc, b.fl)), b.rest)
                    ELSE ReadElements(count - 1, b.rest, Append(acc, b.fl), decode)
            ELSE IF Head(hl.line) = ":"
            THEN LET n == int(Tail(hl.line))
                 IN IF ~n.ok THEN Failed("ValueError", hl.rest)
                    ELSE ReadElements(count - 1, hl.rest, Append(acc, Integer(n.n)), decode)
            ELSE IF Head(hl.line) = "+"
            THEN LET e == Status(ToStr(strip(Tail(hl.line))))
                 IN IF ElementFails(e, decode) THEN Read(Array(Append(acc, e)), hl.rest)
                    ELSE ReadElements(count - 1, hl.rest, Append(acc, e), decode)
            ELSE Read(Array(Append(acc, Unknown(Head(hl.line), ""))), hl.rest)

\* fl = until_eol().strip(); c = chr(bytes(fl)[0]); then the reads of c's branch
ReadReply(buf, decode) ==
    LET first == until_eol(buf)
        fl == strip(first.line)
    IN IF ~first.ok THEN Failed("ConnectionClosed", buf)
       ELSE IF fl = <<>> THEN Failed("IndexError", first.rest)
       ELSE IF Head(fl) = "+" THEN Read(Status(ToStr(Tail(fl))), first.rest)
       ELSE IF Head(fl) = "-" THEN Read(Error(ToStr(Tail(fl))), first.rest)
       ELSE IF Head(fl) = ":"
       THEN LET n == int(Tail(fl))
            IN IF n.ok THEN Read(Integer(n.n), first.rest)
               ELSE Failed("ValueError", first.rest)
       ELSE IF Head(fl) = "$" THEN ReadBulk(Tail(fl), first.rest)
       ELSE IF Head(fl) = "*"
       THEN LET count == int(Tail(fl))
            IN IF ~count.ok THEN Failed("ValueError", first.rest)
               ELSE IF count.n = -1 THEN Read(NilArray, first.rest)
               ELSE ReadElements(count.n, first.rest, <<>>, decode)
       ELSE Read(Unknown(Head(fl), ToStr(Tail(fl))), first.rest)

\* one call of _get_response on a connection that holds buf: the exception raised,
\* the value returned and the bytes left unread
ReadResponse(buf, decode) ==
    LET r == ReadReply(buf, decode)
    IN IF r.exc # "none" THEN [exc |-> r.exc, v |-> PyNone, rest |-> r.rest]
       ELSE [exc |-> _get_response(r.fl, decode).exc,
             v |-> _get_response(r.fl, decode).v,
             rest |-> r.rest]

(***************************************************************************)
(* RedisClient._encode and RedisClient._send, and the server's side of the *)
(* wire.  Here the text of a value or of a reply is a sequence of bytes    *)
(* (of characters, for a str).                                             *)
(***************************************************************************)
CRLF == <<CR, LF>>

RECURSIVE Concat(_)
Concat(ss) == IF ss = <<>> THEN <<>> ELSE Head(ss) \o Concat(Tail(ss))

\* a variant that has no case for bytes: they go through str(value), which gives
\* their repr
_encode_Repr(value) ==
    IF value.t = "bytes" THEN <<"b", "'">> \o value.s \o <<"'">>
    ELSE IF value.t = "int" THEN IntDigits(value.n)
    ELSE Utf8Encode(value.s)

\* _encode: bytes as they are, an int by str(value), text encoded in the charset
_encode(value) ==
    IF value.t = "bytes" THEN value.s
    ELSE IF value.t = "int" THEN IntDigits(value.n)
    ELSE Utf8Encode(value.s)

\* '$%s\r\n' % len(i) + i + '\r\n'
BulkElement(i) == <<"$">> \o NatDigits(Len(i)) \o CRLF \o i \o CRLF

\* _send(cmd, *args): '*%s\r\n' % len(all), then each element of all
_send(args) ==
    LET all == [j \in DOMAIN args |-> _encode(args[j])]
    IN <<"*">> \o NatDigits(Len(all)) \o CRLF
       \o Concat([j \in DOMAIN all |-> BulkElement(all[j])])

\* a reply whose text or payload is the byte sequence b
OnWire(fl, b) == [fl EXCEPT !.s = b]

\* the bytes the server writes for a reply
RECURSIVE Wire(_)
Wire(w) ==
    IF w.k = ":" THEN <<":">> \o IntDigits(w.n) \o CRLF
    ELSE IF w.k = "$"
    THEN IF w.nil THEN <<"$", "-", "1">> \o CRLF ELSE BulkElement(w.s)
    ELSE IF w.k = "*"
    THEN IF w.nil THEN <<"*", "-", "1">> \o CRLF
         ELSE <<"*">> \o NatDigits(Len(w.e)) \o CRLF
              \o Concat([j \in DOMAIN w.e |-> Wire(w.e[j])])
    ELSE <<w.k>> \o w.s \o CRLF

\* the server reads a command: the count, then each argument by its length prefix
RECURSIVE SrvBulks(_, _)
SrvBulks(count, buf) ==
    IF count = 0 THEN <<>>
    ELSE LET hl == until_eol(buf)
             data == receive(int(Tail(hl.line)).n, hl.rest)
         IN <<data.data>> \o SrvBulks(count - 1, receive(2, data.rest).rest)
SrvArgs(req) == LET first == until_eol(req) IN SrvBulks(int(Tail(first.line)).n, first.rest)

\* ECHO message: the reply is the message as a bulk string
SrvEcho(req) == OnWire(Bulk(""), SrvArgs(req)[2])

(***************************************************************************)
(* The server.  srv.val and srv.ttl are the keyspace (ttl -1: no expiry),  *)
(* srv.watching, srv.dirty, srv.multi and srv.queued the per-connection    *)
(* state of WATCH and MULTI.                                               *)
(***************************************************************************)
Cmd(name, key, arg, tm) == [name |-> name, key |-> key, arg |-> arg, tm |-> tm]

\* a write to key k flags every connection that watches k
Touch(s, k) ==
    [s EXCEPT !.dirty = [c \in DOMAIN s.dirty |->
                            s.dirty[c] \/ k \in s.watching[c]]]

\* the server executes one data command
RunCmd(s, cmd) ==
    IF cmd.name = "SET"
    THEN [s |-> Touch([s EXCEPT !.val[cmd.key] = cmd.arg, !.ttl[cmd.key] = -1], cmd.key),
          reply |-> Status("OK")]
    ELSE IF cmd.name = "SETEX"
    THEN [s |-> Touch([s EXCEPT !.val[cmd.key] = cmd.arg, !.ttl[cmd.key] = cmd.tm], cmd.key),
          reply |-> Status("OK")]
    ELSE IF cmd.name = "GET"
    THEN [s |-> s,
          reply |-> IF s.val[cmd.key] = NoKey THEN NilBulk ELSE Bulk(s.val[cmd.key])]
    ELSE IF cmd.name = "DEL"
    THEN IF s.val[cmd.key] = NoKey THEN [s |-> s, reply |-> Integer(0)]
         ELSE [s |-> Touch([s EXCEPT !.val[cmd.key] = NoKey, !.ttl[cmd.key] = -1], cmd.key),
               reply |-> Integer(1)]
    ELSE IF cmd.name = "EXPIRE"
    THEN IF s.val[cmd.key] = NoKey THEN [s |-> s, reply |-> Integer(0)]
         ELSE [s |-> Touch([s EXCEPT !.ttl[cmd.key] = cmd.tm], cmd.key),
               reply |-> Integer(1)]
    ELSE [s |-> s, reply |-> Error("ERR unknown command")]

\* the server runs a queue of commands in order, collecting the replies
RECURSIVE RunAll(_, _, _)
RunAll(s, cmds, replies) ==
    IF cmds = <<>> THEN [s |-> s, replies |-> replies]
    ELSE LET r == RunCmd(s, Head(cmds))
         IN RunAll(r.s, Tail(cmds), Append(replies, r.reply))

\* EXEC and DISCARD both end the connection's transaction state
EndMulti(s, c) ==
    [s EXCEPT !.multi[c] = FALSE, !.queued[c] = <<>>,
              !.watching[c] = {}, !.dirty[c] = FALSE]

SrvWatch(s, c, keys) ==
    IF s.multi[c] THEN [s |-> s, reply |-> Error("ERR WATCH inside MULTI is not allowed")]
    ELSE [s |-> [s EXCEPT !.watching[c] = @ \cup keys], reply |-> Status("OK")]

SrvMulti(s, c) ==
    IF s.multi[c] THEN [s |-> s, reply |-> Error("ERR MULTI calls can not be nested")]
    ELSE [s |-> [s EXCEPT !.multi[c] = TRUE], reply |-> Status("OK")]

SrvExec(s, c) ==
    IF ~s.multi[c] THEN [s |-> s, reply |-> Error("ERR EXEC without MULTI")]
    ELSE IF s.dirty[c] THEN [s |-> EndMulti(s, c), reply |-> NilArray]
    ELSE LET r == RunAll(EndMulti(s, c), s.queued[c], <<>>)
         IN [s |-> r.s, reply |-> Array(r.replies)]

SrvDiscard(s, c) ==
    IF ~s.multi[c] THEN [s |-> s, reply |-> Error("ERR DISCARD without MULTI")]
    ELSE [s |-> EndMulti(s, c), reply |-> Status("OK")]

\* a data command on connection c: queued inside MULTI, executed otherwise
SrvData(s, c, cmd) ==
    IF s.multi[c]
    THEN [s |-> [s EXCEPT !.queued[c] = Append(@, cmd)], reply |-> Status("QUEUED")]
    ELSE RunCmd(s, cmd)

InitSrv ==
    [val |-> [k \in Keys |-> NoKey],
     ttl |-> [k \in Keys |-> -1],
     watching |-> [c \in Clients |-> {}],
     dirty |-> [c \in Clients |-> FALSE],
     multi |-> [c \in Clients |-> FALSE],
     queued |-> [c \in Clients |-> <<>>]]

(***************************************************************************)
(* RedisTransaction.                                                       *)
(***************************************************************************)
\* a variant of __exit__ that leaves out the test for None
ExitOutcome_NoNilTest(value) ==
    [aborted |-> FALSE, raised |-> "none"]

\* a variant of __exit__ that tests `not self.value` in place of `self.value is None`
ExitOutcome_Truthy(value) ==
    IF value = PyNone \/ value = PyList(<<>>)
    THEN [aborted |-> TRUE, raised |-> "RedisTransactionError"]
    ELSE [aborted |-> FALSE, raised |-> "none"]

\* __exit__ after EXEC: value is the decoded reply; None means a watched key changed
ExitOutcome(value) ==
    IF value = PyNone
    THEN [aborted |-> TRUE, raised |-> "RedisTransactionError"]
    ELSE [aborted |-> FALSE, raised |-> "none"]

\* the commands a body may queue
BodyCmds ==
    {Cmd("SET", k, v, 0) : k \in Keys, v \in Values}
        \cup {Cmd("GET", k, "", 0) : k \in Keys}
        \cup {Cmd("DEL", k, "", 0) : k \in Keys}

WriteCmds == {cmd \in BodyCmds : cmd.name \in {"SET", "DEL"}}

\* history: the clients other than c that hold a WATCH on a key whose value a
\* step of c changes from old to new
Hit(c, old, new) ==
    {d \in Clients \ {c} :
        /\ tpc[d] \in {"created", "body", "raising"}
        /\ \E k \in t_watching[d] : old[k] # new[k]}

\* a variant of __init__ without the test `if watch_keys`
NewTransaction_AlwaysWatch(c, keys) ==
    /\ tpc[c] = "idle"
    /\ tpc' = [tpc EXCEPT ![c] = "created"]
    /\ t_value' = [t_value EXCEPT ![c] = PyNone]
    /\ t_watching' = [t_watching EXCEPT ![c] = keys]
    /\ t_aborted' = [t_aborted EXCEPT ![c] = FALSE]
    /\ srv' = SrvWatch(srv, c, keys).s
    /\ cmd_log' = [cmd_log EXCEPT ![c] = <<"WATCH">>]
    /\ raised' = [raised EXCEPT ![c] = "none"]
    /\ body_exc' = [body_exc EXCEPT ![c] = "none"]
    /\ body_cmds' = [body_cmds EXCEPT ![c] = <<>>]
    /\ modified' = [modified EXCEPT ![c] = FALSE]
    /\ UNCHANGED decode_responses
    /\ UNCHANGED lockVars
    /\ UNCHANGED hubVars
    /\ UNCHANGED ioVars

\* RedisClient.transaction(watch) and RedisTransaction.__init__
NewTransaction(c, keys) ==
    /\ tpc[c] = "idle"
    /\ tpc' = [tpc EXCEPT ![c] = "created"]
    /\ t_value' = [t_value EXCEPT ![c] = PyNone]
    /\ t_watching' = [t_watching EXCEPT ![c] = keys]
    /\ t_aborted' = [t_aborted EXCEPT ![c] = FALSE]
    /\ IF keys # {}
       THEN /\ srv' = SrvWatch(srv, c, keys).s
            /\ cmd_log' = [cmd_log EXCEPT ![c] = <<"WATCH">>]
       ELSE /\ srv' = srv
            /\ cmd_log' = [cmd_log EXCEPT ![c] = <<>>]
    /\ raised' = [raised EXCEPT ![c] = "none"]
    /\ body_exc' = [body_exc EXCEPT ![c] = "none"]
    /\ body_cmds' = [body_cmds EXCEPT ![c] = <<>>]
    /\ modified' = [modified EXCEPT ![c] = FALSE]
    /\ UNCHANGED decode_responses
    /\ UNCHANGED lockVars
    /\ UNCHANGED hubVars
    /\ UNCHANGED ioVars

\* RedisTransaction.__enter__
Enter(c) ==
    /\ tpc[c] = "created"
    /\ srv' = SrvMulti(srv, c).s
    /\ tpc' = [tpc EXCEPT ![c] = "body"]
    /\ cmd_log' = [cmd_log EXCEPT ![c] = Append(@, "MULTI")]
    /\ UNCHANGED <<decode_responses, t_watching, t_value, t_aborted, raised,
                   body_exc, body_cmds, modified>>
    /\ UNCHANGED lockVars
    /\ UNCHANGED hubVars
    /\ UNCHANGED ioVars

\* a command method called on the transaction handle inside the scope
QueueCmd(c, cmd) ==
    /\ tpc[c] = "body"
    /\ Len(body_cmds[c]) < MaxQueued
    /\ srv' = SrvData(srv, c, cmd).s
    /\ cmd_log' = [cmd_log EXCEPT ![c] = Append(@, cmd.name)]
    /\ body_cmds' = [body_cmds EXCEPT ![c] = Append(@, cmd)]
    /\ UNCHANGED <<decode_responses, tpc, t_watching, t_value, t_aborted, raised,
                   body_exc, modified>>
    /\ UNCHANGED lockVars
    /\ UNCHANGED hubVars
    /\ UNCHANGED ioVars

\* the body raises
BodyRaise(c, e) ==
    /\ tpc[c] = "body"
    /\ tpc' = [tpc EXCEPT ![c] = "raising"]
    /\ body_exc' = [body_exc EXCEPT ![c] = e]
    /\ UNCHANGED <<srv, decode_responses, t_watching, t_value, t_aborted, raised,
                   cmd_log, body_cmds, modified>>
    /\ UNCHANGED lockVars
    /\ UNCHANGED hubVars
    /\ UNCHANGED ioVars

\* a variant of __exit__ that returns True, which swallows the body's exception
ExitFault_Swallows(c) ==
    /\ tpc[c] = "raising"
    /\ srv' = SrvDiscard(srv, c).s
    /\ cmd_log' = [cmd_log EXCEPT ![c] = Append(@, "DISCARD")]
    /\ t_aborted' = [t_aborted EXCEPT ![c] = TRUE]
    /\ raised' = [raised EXCEPT ![c] = "none"]
    /\ tpc' = [tpc EXCEPT ![c] = "done"]
    /\ UNCHANGED <<decode_responses, t_watching, t_value, body_exc, body_cmds, modified>>
    /\ UNCHANGED lockVars
    /\ UNCHANGED hubVars
    /\ UNCHANGED ioVars

\* RedisTransaction.__exit__ with an exception: DISCARD, and the exception goes on
ExitFault(c) ==
    /\ tpc[c] = "raising"
    /\ srv' = SrvDiscard(srv, c).s
    /\ cmd_log' = [cmd_log EXCEPT ![c] = Append(@, "DISCARD")]
    /\ t_aborted' = [t_aborted EXCEPT ![c] = TRUE]
    /\ raised' = [raised EXCEPT ![c] = body_exc[c]]
    /\ tpc' = [tpc EXCEPT ![c] = "done"]
    /\ UNCHANGED <<decode_responses, t_watching, t_value, body_exc, body_cmds, modified>>
    /\ UNCHANGED lockVars
    /\ UNCHANGED hubVars
    /\ UNCHANGED ioVars

\* RedisTransaction.__exit__ without an exception: EXEC
ExitNormal(c) ==
    /\ tpc[c] = "body"
    /\ LET r == SrvExec(srv, c)
           got == _get_response(r.reply, decode_responses)
           out == ExitOutcome(got.v)
       IN /\ srv' = r.s
          /\ t_value' = [t_value EXCEPT ![c] = got.v]
          /\ t_aborted' = [t_aborted EXCEPT ![c] = out.aborted]
          /\ raised' = [raised EXCEPT ![c] = IF got.exc # "none" THEN got.exc
                                             ELSE out.raised]
          /\ modified' = [d \in Clients |->
                            modified[d] \/ d \in Hit(c, srv.val, r.s.val)]
    /\ cmd_log' = [cmd_log EXCEPT ![c] = Append(@, "EXEC")]
    /\ tpc' = [tpc EXCEPT ![c] = "done"]
    /\ UNCHANGED <<decode_responses, t_watching, body_exc, body_cmds>>
    /\ UNCHANGED lockVars
    /\ UNCHANGED hubVars
    /\ UNCHANGED ioVars

\* a client outside a scope writes a key directly
PlainWrite(c, cmd) ==
    /\ tpc[c] \in {"idle", "created"}
    /\ srv' = SrvData(srv, c, cmd).s
    /\ modified' = [d \in Clients |->
                      modified[d] \/ d \in Hit(c, srv.val, srv'.val)]
    /\ UNCHANGED <<decode_responses, tpc, t_watching, t_value, t_aborted, raised,
                   body_exc, cmd_log, body_cmds>>
    /\ UNCHANGED lockVars
    /\ UNCHANGED hubVars
    /\ UNCHANGED ioVars

\* the transaction object is dropped; the client may start another
Forget(c) ==
    /\ tpc[c] = "done"
    /\ tpc' = [tpc EXCEPT ![c] = "idle"]
    /\ t_watching' = [t_watching EXCEPT ![c] = {}]
    /\ t_value' = [t_value EXCEPT ![c] = PyNone]
    /\ t_aborted' = [t_aborted EXCEPT ![c] = FALSE]
    /\ raised' = [raised EXCEPT ![c] = "none"]
    /\ body_exc' = [body_exc EXCEPT ![c] = "none"]
    /\ cmd_log' = [cmd_log EXCEPT ![c] = <<>>]
    /\ body_cmds' = [body_cmds EXCEPT ![c] = <<>>]
    /\ modified' = [modified EXCEPT ![c] = FALSE]
    /\ UNCHANGED <<srv, decode_responses>>
    /\ UNCHANGED lockVars
    /\ UNCHANGED hubVars
    /\ UNCHANGED ioVars

(***************************************************************************)
(* RedisSubHub: names, queues and the state after construction.            *)
(***************************************************************************)
\* the producers that open a subscription on the hub, each with its own queue
Producers == {1, 2}
\* the channels messages are published to
Channels == {"r1", "r2"}
\* the names producers subscribe to: the channels and one glob pattern
HubKeys == Channels \cup {"r*"}
\* the bytes names are made of, and the names
NameChars == {"r", "1", "2", "*", "?", "[", "]"}
NameSeqs == SeqsUpTo(NameChars, MaxName) \ {<<>>}
Names == {ToStr(b) : b \in NameSeqs}
\* the bytes of a name
CharsOf == [name \in Names |-> CHOOSE b \in NameSeqs : ToStr(b) = name]
Chars(name) == CharsOf[name]
\* what a producer passes as `classes`
ClassLists == {<<k>> : k \in HubKeys}

InitHub ==
    /\ sub_adds = <<>>
    /\ sub_rms = <<>>
    /\ subs = [k \in HubKeys |-> {}]
    /\ hpc = "top"
    /\ suspended = TRUE
    /\ woken = FALSE
    /\ inbox = <<>>
    /\ schan = {}
    /\ spat = {}
    /\ queue = [q \in Producers |-> <<>>]
    /\ ppc = [p \in Producers |-> "idle"]
    /\ pcls = [p \in Producers |-> <<>>]
    /\ npub = 0
    /\ unrouted = 0

\* no call was made on the command connection
NoCall == [method |-> "none", no |-> 0, exc |-> "none", msg |-> "", v |-> PyNone,
           from |-> 0, reply |-> Status("")]

InitChan ==
    /\ pending = <<>>
    /\ nsent = 0
    /\ last = NoCall

\* no exchange has begun on the codec's connection
NoArg == PyNone
NoReply == OnWire(Status(""), <<>>)
NoResponse == [exc |-> "none", v |-> PyNone, rest |-> <<>>]

InitCodec ==
    /\ wire = <<>>
    /\ tail = <<>>
    /\ request = <<>>
    /\ argument = NoArg
    /\ served = NoReply
    /\ response = NoResponse
    /\ cpc = "idle"

\* no request has been classified
InitGlob ==
    /\ gname = ""
    /\ gcmd = "none"
    /\ gpc = "idle"

InitIo == InitChan /\ InitCodec /\ InitGlob

\* no lock object is in use
InitLockIdle ==
    /\ lease = MinTimeout
    /\ lpc = [c \in Clients |-> "idle"]
    /\ in_block = [c \in Clients |-> FALSE]
    /\ touch = [c \in Clients |-> [r \in 0..MaxSleep |-> 0]]
    /\ overlap = [c \in Clients |-> FALSE]
    /\ held_ticks = [c \in Clients |-> 0]
    /\ track = FALSE
    /\ seen = {}
    /\ clean = [c \in Clients |-> FALSE]

InitTxn ==
    /\ tpc = [c \in Clients |-> "idle"]
    /\ t_watching = [c \in Clients |-> {}]
    /\ t_value = [c \in Clients |-> PyNone]
    /\ t_aborted = [c \in Clients |-> FALSE]
    /\ raised = [c \in Clients |-> "none"]
    /\ body_exc = [c \in Clients |-> "none"]
    /\ cmd_log = [c \in Clients |-> <<>>]
    /\ body_cmds = [c \in Clients |-> <<>>]
    /\ modified = [c \in Clients |-> FALSE]

InitT ==
    /\ srv = InitSrv
    /\ decode_responses \in BOOLEAN
    /\ InitTxn
    /\ InitLockIdle
    /\ InitHub
    /\ InitIo

NextT ==
    \/ \E c \in Transactors :
            \/ \E keys \in SUBSET Keys : NewTransaction(c, keys)
            \/ Enter(c)
            \/ \E cmd \in BodyCmds : QueueCmd(c, cmd)
            \/ \E e \in BodyFaults : BodyRaise(c, e)
            \/ ExitFault(c)
            \/ ExitNormal(c)
            \/ Forget(c)
    \/ \E c \in Clients, cmd \in WriteCmds : PlainWrite(c, cmd)

SpecTxn == InitT /\ [][NextT]_vars

(***************************************************************************)
(* RedisLock.  Time is counted in ticks of half a time unit, so that the   *)
(* renewal task's sleep of timeout / 2 is a whole number of ticks.         *)
(* A renewal task is timely: time does not pass while a renewal task is    *)
(* due to run.  Every other step may take any time.                        *)
(***************************************************************************)
\* the clients that contend for the lock
Lockers == {1, 2}
\* the key every lock object of the model is made for
LockKey == "k1"
\* RedisLock.me: uuid.uuid4().bytes, drawn once when the lock object is made
me(c) == "token" \o ToString(c)
\* what the key may hold before any lock object is used
ForeignValues == {NoKey, "", "foreign"}

LeaseTicks == lease * TicksPerUnit
\* sleep(self.timeout / 2)
SleepTicks == (lease * TicksPerUnit) \div 2

\* the attempts that are under way: WATCH is sent, the outcome is not yet known
InProgress == {"watched", "checked", "body", "queued"}


TaskCount(b) == LET RECURSIVE Sum(_)
                    Sum(r) == IF r < 0 THEN 0 ELSE b[r] + Sum(r - 1)
                IN Sum(MaxSleep)

\* __enter__: trans = self.client.transaction(watch=[self.key])
L_Transaction(c) ==
    /\ lpc[c] = "idle"
    /\ TaskCount(touch[c]) < MaxTouch
    /\ srv' = SrvWatch(srv, c, {LockKey}).s
    /\ t_value' = [t_value EXCEPT ![c] = PyNone]
    /\ t_watching' = [t_watching EXCEPT ![c] = {LockKey}]
    /\ t_aborted' = [t_aborted EXCEPT ![c] = FALSE]
    /\ cmd_log' = [cmd_log EXCEPT ![c] = <<"WATCH">>]
    /\ raised' = [raised EXCEPT ![c] = "none"]
    /\ overlap' = [overlap EXCEPT ![c] = FALSE]
    /\ lpc' = [lpc EXCEPT ![c] = "watched"]
    /\ clean' = [clean EXCEPT ![c] = track /\ srv.val[LockKey] = NoKey]
    /\ UNCHANGED <<decode_responses, scopeVars, lease, in_block, touch, held_ticks,
                   track, seen>>
    /\ UNCHANGED hubVars
    /\ UNCHANGED ioVars

\* __enter__: v = self.client.get(self.key); if v: raise LockNotAcquired()
L_Get(c) ==
    /\ lpc[c] = "watched"
    /\ LET r == SrvData(srv, c, Cmd("GET", LockKey, "", 0))
           v == _get_response(r.reply, decode_responses).v
       IN /\ srv' = r.s
          /\ IF Truthy(v)
             THEN /\ raised' = [raised EXCEPT ![c] = "LockNotAcquired"]
                  /\ lpc' = [lpc EXCEPT ![c] = "failed"]
             ELSE /\ raised' = raised
                  /\ lpc' = [lpc EXCEPT ![c] = "checked"]
    /\ cmd_log' = [cmd_log EXCEPT ![c] = Append(@, "GET")]
    /\ UNCHANGED <<decode_responses, scopeVars, t_watching, t_value, t_aborted,
                   lease, in_block, touch, overlap, held_ticks, histVars>>
    /\ UNCHANGED hubVars
    /\ UNCHANGED ioVars

\* __enter__: with trans as t  (RedisTransaction.__enter__: MULTI)
L_Multi(c) ==
    /\ lpc[c] = "checked"
    /\ srv' = SrvMulti(srv, c).s
    /\ cmd_log' = [cmd_log EXCEPT ![c] = Append(@, "MULTI")]
    /\ lpc' = [lpc EXCEPT ![c] = "body"]
    /\ UNCHANGED <<decode_responses, scopeVars, t_watching, t_value, t_aborted,
                   raised, lease, in_block, touch, overlap, held_ticks, histVars>>
    /\ UNCHANGED hubVars
    /\ UNCHANGED ioVars

\* __enter__: t.setex(self.key, self.timeout, self.me)
L_Setex(c) ==
    /\ lpc[c] = "body"
    /\ srv' = SrvData(srv, c, Cmd("SETEX", LockKey, me(c), LeaseTicks)).s
    /\ cmd_log' = [cmd_log EXCEPT ![c] = Append(@, "SETEX")]
    /\ lpc' = [lpc EXCEPT ![c] = "queued"]
    /\ UNCHANGED <<decode_responses, scopeVars, t_watching, t_value, t_aborted,
                   raised, lease, in_block, touch, overlap, held_ticks, histVars>>
    /\ UNCHANGED hubVars
    /\ UNCHANGED ioVars

\* __enter__: the scope's exit (EXEC), then in_block = True and fork(touch), or
\* RedisTransactionError turned into LockNotAcquired
L_Exec(c) ==
    /\ lpc[c] = "queued"
    /\ LET r == SrvExec(srv, c)
           got == _get_response(r.reply, decode_responses)
           out == ExitOutcome(got.v)
       IN /\ srv' = r.s
          /\ t_value' = [t_value EXCEPT ![c] = got.v]
          /\ t_aborted' = [t_aborted EXCEPT ![c] = out.aborted]
          /\ IF out.raised = "RedisTransactionError"
             THEN /\ raised' = [raised EXCEPT ![c] = "LockNotAcquired"]
                  /\ lpc' = [lpc EXCEPT ![c] = "failed"]
                  /\ clean' = [clean EXCEPT ![c] = FALSE]
                  /\ UNCHANGED <<in_block, touch, overlap, held_ticks, seen>>
             ELSE /\ raised' = raised
                  /\ lpc' = [lpc EXCEPT ![c] = "held"]
                  /\ in_block' = [in_block EXCEPT ![c] = TRUE]
                  /\ touch' = [touch EXCEPT ![c][0] = @ + 1]
                  /\ overlap' = [d \in Clients |->
                                   overlap[d] \/ (d # c /\ lpc[d] \in InProgress)]
                  /\ held_ticks' = [held_ticks EXCEPT ![c] = 0]
                  /\ clean' = [d \in Clients |-> FALSE]
                  /\ seen' = IF track THEN seen \cup {r.s.val[LockKey]} ELSE seen
    /\ cmd_log' = [cmd_log EXCEPT ![c] = Append(@, "EXEC")]
    /\ UNCHANGED <<decode_responses, scopeVars, t_watching, lease, track>>
    /\ UNCHANGED hubVars
    /\ UNCHANGED ioVars

\* __exit__: in_block = False; val = self.client.get(self.key); assert val == self.me
L_ExitGet(c) ==
    /\ lpc[c] = "held"
    /\ in_block' = [in_block EXCEPT ![c] = FALSE]
    /\ LET r == SrvData(srv, c, Cmd("GET", LockKey, "", 0))
           val == _get_response(r.reply, decode_responses).v
       IN /\ srv' = r.s
          /\ IF val = PyBytes(me(c))
             THEN /\ raised' = raised
                  /\ lpc' = [lpc EXCEPT ![c] = "deleting"]
             ELSE /\ raised' = [raised EXCEPT ![c] = "AssertionError"]
                  /\ lpc' = [lpc EXCEPT ![c] = "panicked"]
    /\ cmd_log' = [cmd_log EXCEPT ![c] = <<"GET">>]
    /\ held_ticks' = [held_ticks EXCEPT ![c] = 0]
    /\ UNCHANGED <<decode_responses, scopeVars, t_watching, t_value, t_aborted,
                   lease, touch, overlap, histVars>>
    /\ UNCHANGED hubVars
    /\ UNCHANGED ioVars

\* __exit__: self.client.delete(self.key)
L_ExitDel(c) ==
    /\ lpc[c] = "deleting"
    /\ srv' = SrvData(srv, c, Cmd("DEL", LockKey, "", 0)).s
    /\ cmd_log' = [cmd_log EXCEPT ![c] = Append(@, "DEL")]
    /\ lpc' = [lpc EXCEPT ![c] = "released"]
    /\ UNCHANGED <<decode_responses, scopeVars, t_watching, t_value, t_aborted,
                   raised, lease, in_block, touch, overlap, held_ticks, histVars>>
    /\ UNCHANGED hubVars
    /\ UNCHANGED ioVars

\* the caller goes on, and may use the same lock object and connection again
L_Again(c) ==
    /\ lpc[c] \in {"failed", "released", "panicked"}
    /\ lpc' = [lpc EXCEPT ![c] = "idle"]
    /\ t_value' = [t_value EXCEPT ![c] = PyNone]
    /\ t_watching' = [t_watching EXCEPT ![c] = {}]
    /\ t_aborted' = [t_aborted EXCEPT ![c] = FALSE]
    /\ cmd_log' = [cmd_log EXCEPT ![c] = <<>>]
    /\ raised' = [raised EXCEPT ![c] = "none"]
    /\ overlap' = [overlap EXCEPT ![c] = FALSE]
    /\ UNCHANGED <<srv, decode_responses, scopeVars, lease, in_block, touch, held_ticks, histVars>>
    /\ UNCHANGED hubVars
    /\ UNCHANGED ioVars

\* a variant of touch that sleeps the whole timeout
TouchSleep_Whole == lease * TicksPerUnit

\* touch: sleep(self.timeout / 2), in ticks
TouchSleep == SleepTicks

\* touch, one turn of a task that is due: while self.in_block: expire; sleep
TouchRun(c) ==
    /\ touch[c][0] > 0
    /\ IF in_block[c]
       THEN /\ srv' = RunCmd(srv, Cmd("EXPIRE", LockKey, "", LeaseTicks)).s
            /\ touch' = [touch EXCEPT ![c][0] = @ - 1, ![c][TouchSleep] = @ + 1]
       ELSE /\ srv' = srv
            /\ touch' = [touch EXCEPT ![c][0] = @ - 1]
    /\ UNCHANGED <<decode_responses, scopeVars, txnVars, lease, lpc, in_block, overlap,
                   held_ticks, histVars>>
    /\ UNCHANGED hubVars
    /\ UNCHANGED ioVars

\* the keys whose expiry comes with the next tick
Expiring(s) == {k \in Keys : s.ttl[k] = 1}

\* half a time unit passes: sleeps and expiries come nearer, keys that are due
\* expire; whether an expiry counts as a change to a watched key differs between
\* server versions, so both are allowed
Tick(flag) ==
    /\ \A c \in Clients : touch[c][0] = 0
    /\ \/ \E k \in Keys : srv.ttl[k] > 0
       \/ \E c \in Clients : TaskCount(touch[c]) > 0
    /\ LET aged == [srv EXCEPT
                      !.val = [k \in Keys |-> IF k \in Expiring(srv) THEN NoKey ELSE srv.val[k]],
                      !.ttl = [k \in Keys |-> IF srv.ttl[k] > 1 THEN srv.ttl[k] - 1 ELSE -1]]
       IN srv' = IF flag
                 THEN [aged EXCEPT !.dirty = [c \in Clients |->
                          srv.dirty[c] \/ (srv.watching[c] \cap Expiring(srv) # {})]]
                 ELSE aged
    /\ touch' = [c \in Clients |-> [r \in 0..MaxSleep |->
                    IF r < MaxSleep THEN touch[c][r + 1] ELSE 0]]
    /\ held_ticks' = [c \in Clients |->
                        IF lpc[c] = "held" /\ held_ticks[c] <= LeaseTicks
                        THEN held_ticks[c] + 1 ELSE held_ticks[c]]
    /\ UNCHANGED <<decode_responses, scopeVars, txnVars, lease, lpc, in_block, overlap,
                   histVars>>
    /\ UNCHANGED hubVars
    /\ UNCHANGED ioVars

InitL ==
    /\ \E v \in ForeignValues : srv = [InitSrv EXCEPT !.val[LockKey] = v]
    /\ decode_responses = FALSE
    /\ InitTxn
    /\ lease \in MinTimeout..MaxTimeout
    /\ lpc = [c \in Clients |-> "idle"]
    /\ in_block = [c \in Clients |-> FALSE]
    /\ touch = [c \in Clients |-> [r \in 0..MaxSleep |-> 0]]
    /\ overlap = [c \in Clients |-> FALSE]
    /\ held_ticks = [c \in Clients |-> 0]
    /\ track = FALSE
    /\ seen = {}
    /\ clean = [c \in Clients |-> FALSE]
    /\ InitHub
    /\ InitIo

NextL ==
    \/ \E c \in Lockers :
          \/ L_Transaction(c)
          \/ L_Get(c)
          \/ L_Multi(c)
          \/ L_Setex(c)
          \/ L_Exec(c)
          \/ L_ExitGet(c)
          \/ L_ExitDel(c)
          \/ L_Again(c)
          \/ TouchRun(c)
    \/ \E flag \in BOOLEAN : Tick(flag)

SpecLock == InitL /\ [][NextL]_vars

\* the same lock objects used again and again, with the histories kept: the key is
\* free at first
InitR ==
    /\ srv = InitSrv
    /\ decode_responses = FALSE
    /\ InitTxn
    /\ lease \in MinTimeout..MaxTimeout
    /\ lpc = [c \in Clients |-> "idle"]
    /\ in_block = [c \in Clients |-> FALSE]
    /\ touch = [c \in Clients |-> [r \in 0..MaxSleep |-> 0]]
    /\ overlap = [c \in Clients |-> FALSE]
    /\ held_ticks = [c \in Clients |-> 0]
    /\ track = TRUE
    /\ seen = {}
    /\ clean = [c \in Clients |-> FALSE]
    /\ InitHub
    /\ InitIo

SpecRelock == InitR /\ [][NextL]_vars

(***************************************************************************)
(* RedisSubHub.  The hub's task runs from one suspension point to the     *)
(* next without interleaving; producers run only while it is suspended.   *)
(* The server handles a SUBSCRIBE or UNSUBSCRIBE as it is written and     *)
(* answers with one acknowledgement per name.                             *)
(***************************************************************************)
nonHubVars == <<srv, decode_responses, scopeVars, txnVars, lockVars>>

\* __isglob: `b'*' in glob or b'?' in glob or (b'[' in glob and b']' and glob)`;
\* the last operand is the truth value of b']' (true) and of glob (not empty)
__isglob(glob) ==
    \/ "*" \in Range(Chars(glob))
    \/ "?" \in Range(Chars(glob))
    \/ ("[" \in Range(Chars(glob)) /\ TRUE /\ Chars(glob) # <<>>)

\* the server's glob matching of a pattern against a channel name
RECURSIVE GlobMatch(_, _)
GlobMatch(p, s) ==
    IF p = <<>> THEN s = <<>>
    ELSE IF Head(p) = "*"
    THEN GlobMatch(Tail(p), s) \/ (s # <<>> /\ GlobMatch(p, Tail(s)))
    ELSE /\ s # <<>>
         /\ Head(p) \in {"?", Head(s)}
         /\ GlobMatch(Tail(p), Tail(s))

\* the payload of the n-th published message
Payload(n) == "m" \o ToString(n)

\* what the server sends on a subscriber's connection
MessageReply(ch, msg) == Array(<<Bulk("message"), Bulk(ch), Bulk(msg)>>)
PMessageReply(pat, ch, msg) == Array(<<Bulk("pmessage"), Bulk(pat), Bulk(ch), Bulk(msg)>>)
AckReply(kind, name, count) == Array(<<Bulk(kind), Bulk(name), Integer(count)>>)

\* the orders in which a set may be iterated
Orders(S) == {f \in [1..Cardinality(S) -> S] : \A i, j \in DOMAIN f : i # j => f[i] # f[j]}

\* the server subscribes the names in the order given: the new subscription sets
\* and one acknowledgement for each name
RECURSIVE SrvSubscribe(_, _, _, _, _)
SrvSubscribe(kind, names, ch, pat, acks) ==
    IF names = <<>> THEN [schan |-> ch, spat |-> pat, acks |-> acks]
    ELSE LET k == Head(names)
             ch1 == IF kind = "subscribe" THEN ch \cup {k}
                    ELSE IF kind = "unsubscribe" THEN ch \ {k} ELSE ch
             pat1 == IF kind = "psubscribe" THEN pat \cup {k}
                     ELSE IF kind = "punsubscribe" THEN pat \ {k} ELSE pat
         IN SrvSubscribe(kind, Tail(names), ch1, pat1,
                Append(acks, AckReply(kind, k, Cardinality(ch1) + Cardinality(pat1))))

\* __call__, the loop over sa: the mapping and the names that are new in it
RECURSIVE AddAll(_, _, _, _)
AddAll(sa, m, new_subs, new_glob_subs) ==
    IF sa = <<>> THEN [subs |-> m, new_subs |-> new_subs, new_glob_subs |-> new_glob_subs]
    ELSE LET k == Head(sa)[1]
             q == Head(sa)[2]
         IN IF m[k] = {}
            THEN AddAll(Tail(sa), [m EXCEPT ![k] = {q}],
                        IF __isglob(k) THEN new_subs ELSE new_subs \cup {k},
                        IF __isglob(k) THEN new_glob_subs \cup {k} ELSE new_glob_subs)
            ELSE AddAll(Tail(sa), [m EXCEPT ![k] = @ \cup {q}], new_subs, new_glob_subs)

\* __call__, the loop over sr: subs[k].remove(q) raises KeyError when k is not a key
\* of the mapping or q is not in its set, and the loop ends there
RECURSIVE RmAll(_, _, _, _)
RmAll(sr, m, rm_subs, rm_glob_subs) ==
    IF sr = <<>>
    THEN [exc |-> "none", subs |-> m, rm_subs |-> rm_subs, rm_glob_subs |-> rm_glob_subs]
    ELSE LET k == Head(sr)[1]
             q == Head(sr)[2]
         IN IF q \notin m[k]
            THEN [exc |-> "KeyError", subs |-> m,
                  rm_subs |-> rm_subs, rm_glob_subs |-> rm_glob_subs]
            ELSE IF m[k] = {q}
            THEN RmAll(Tail(sr), [m EXCEPT ![k] = {}],
                       IF __isglob(k) THEN rm_subs ELSE rm_subs \cup {k},
                       IF __isglob(k) THEN rm_glob_subs \cup {k} ELSE rm_glob_subs)
            ELSE RmAll(Tail(sr), [m EXCEPT ![k] = @ \ {q}], rm_subs, rm_glob_subs)

\* the (cls, q) requests of a producer, in the order of its classes
Requests(classes, q) == [i \in 1..Len(classes) |-> <<classes[i], q>>]

\* a variant in which the producer puts its queue into the mapping itself
Subscribe_Direct(p, classes) ==
    /\ suspended
    /\ ppc[p] = "idle"
    /\ ppc' = [ppc EXCEPT ![p] = "open"]
    /\ pcls' = [pcls EXCEPT ![p] = classes]
    /\ subs' = [subs EXCEPT ![classes[1]] = @ \cup {p}]
    /\ woken' = (woken \/ hpc = "wait")
    /\ UNCHANGED <<sub_adds, sub_rms, hpc, suspended, inbox, schan, spat, queue, npub,
                   unrouted>>
    /\ UNCHANGED nonHubVars
    /\ UNCHANGED ioVars

\* sub / subq: the requests are appended to sub_adds and the wake signal is fired;
\* the signal reaches the hub only if the hub is waiting on it
Subscribe(p, classes) ==
    /\ suspended
    /\ ppc[p] = "idle"
    /\ ppc' = [ppc EXCEPT ![p] = "open"]
    /\ pcls' = [pcls EXCEPT ![p] = classes]
    /\ sub_adds' = sub_adds \o Requests(classes, p)
    /\ woken' = (woken \/ hpc = "wait")
    /\ UNCHANGED <<sub_rms, subs, hpc, suspended, inbox, schan, spat, queue, npub, unrouted>>
    /\ UNCHANGED nonHubVars
    /\ UNCHANGED ioVars

\* leaving subq, Poller.close: the requests are appended to sub_rms, nothing else
Dispose(p) ==
    /\ suspended
    /\ ppc[p] = "open"
    /\ ppc' = [ppc EXCEPT ![p] = "closed"]
    /\ sub_rms' = sub_rms \o Requests(pcls[p], p)
    /\ UNCHANGED <<sub_adds, subs, hpc, suspended, woken, inbox, schan, spat, queue,
                   pcls, npub, unrouted>>
    /\ UNCHANGED nonHubVars
    /\ UNCHANGED ioVars

\* another client publishes: the server sends the message for the channel if the
\* hub's connection is subscribed to it, and once for each pattern that matches
Publish(ch) ==
    /\ suspended
    /\ npub < MaxPublish
    /\ npub' = npub + 1
    /\ \E po \in Orders({pat \in spat : GlobMatch(Chars(pat), Chars(ch))}) :
          inbox' = inbox
                    \o (IF ch \in schan THEN <<MessageReply(ch, Payload(npub + 1))>>
                        ELSE <<>>)
                    \o [i \in 1..Len(po) |-> PMessageReply(po[i], ch, Payload(npub + 1))]
    /\ UNCHANGED <<sub_adds, sub_rms, subs, hpc, suspended, woken, schan, spat, queue,
                   ppc, pcls, unrouted>>
    /\ UNCHANGED nonHubVars
    /\ UNCHANGED ioVars

\* __call__, `if self.sub_adds`: the buffer is taken whole, the mapping updated, and
\* SUBSCRIBE and PSUBSCRIBE written for the names that are new
HubDrainAdds ==
    /\ hpc = "top"
    /\ LET a == AddAll(sub_adds, subs, {}, {})
       IN /\ subs' = a.subs
          /\ \E o1 \in Orders(a.new_subs), o2 \in Orders(a.new_glob_subs) :
                LET s1 == SrvSubscribe("subscribe", o1, schan, spat, <<>>)
                    s2 == SrvSubscribe("psubscribe", o2, s1.schan, s1.spat, s1.acks)
                IN /\ schan' = s2.schan
                   /\ spat' = s2.spat
                   /\ inbox' = inbox \o s2.acks
          /\ suspended' = (a.new_subs \cup a.new_glob_subs # {})
    /\ sub_adds' = <<>>
    /\ hpc' = "rms"
    /\ UNCHANGED <<sub_rms, woken, queue, ppc, pcls, npub, unrouted>>
    /\ UNCHANGED nonHubVars
    /\ UNCHANGED ioVars

\* __call__, `if self.sub_rms`: the buffer is taken whole, the queues removed, and
\* UNSUBSCRIBE and PUNSUBSCRIBE written for the names whose last queue went
HubDrainRms ==
    /\ hpc = "rms"
    /\ LET r == RmAll(sub_rms, subs, {}, {})
       IN /\ subs' = r.subs
          /\ IF r.exc # "none"
             THEN /\ hpc' = "crashed"
                  /\ suspended' = TRUE
                  /\ UNCHANGED <<schan, spat, inbox>>
             ELSE /\ hpc' = "check"
                  /\ suspended' = (r.rm_subs \cup r.rm_glob_subs # {})
                  /\ \E o1 \in Orders(r.rm_subs), o2 \in Orders(r.rm_glob_subs) :
                        LET s1 == SrvSubscribe("unsubscribe", o1, schan, spat, <<>>)
                            s2 == SrvSubscribe("punsubscribe", o2, s1.schan, s1.spat,
                                               s1.acks)
                        IN /\ schan' = s2.schan
                           /\ spat' = s2.spat
                           /\ inbox' = inbox \o s2.acks
    /\ sub_rms' = <<>>
    /\ UNCHANGED <<sub_adds, woken, queue, ppc, pcls, npub, unrouted>>
    /\ UNCHANGED nonHubVars
    /\ UNCHANGED ioVars

\* __call__, `if not self.sub_rms and not self.sub_adds`: the hub starts to wait
\* for a reply or the wake signal, or goes round again
HubCheck ==
    /\ hpc = "check"
    /\ IF sub_rms = <<>> /\ sub_adds = <<>>
       THEN hpc' = "wait" /\ suspended' = TRUE
       ELSE hpc' = "top" /\ suspended' = FALSE
    /\ UNCHANGED <<sub_adds, sub_rms, subs, woken, inbox, schan, spat, queue, ppc,
                   pcls, npub, unrouted>>
    /\ UNCHANGED nonHubVars
    /\ UNCHANGED ioVars

\* a variant that routes a pattern message by its channel
get_from_subscriptions_ByChannel(r) ==
    IF Truthy(r)
    THEN IF r.t = "int" THEN [exc |-> "TypeError", ret |-> TRUE, v |-> PyNone]
         ELSE IF r.t = "list" /\ r.l[1] = PyBytes("message")
         THEN [exc |-> "none", ret |-> TRUE, v |-> PyList(<<r.l[2]>> \o Tail(r.l))]
         ELSE IF r.t = "list" /\ r.l[1] = PyBytes("pmessage")
         THEN [exc |-> "none", ret |-> TRUE, v |-> PyList(<<r.l[3]>> \o Tail(Tail(r.l)))]
         ELSE [exc |-> "none", ret |-> FALSE, v |-> PyNone]
    ELSE [exc |-> "none", ret |-> TRUE, v |-> PyNone]

\* get_from_subscriptions, one pass of its loop over what _get_response returned:
\* ret says whether it returns (v) or reads the next reply
get_from_subscriptions(r) ==
    IF Truthy(r)
    THEN IF r.t = "int" THEN [exc |-> "TypeError", ret |-> TRUE, v |-> PyNone]
         ELSE IF r.t = "list" /\ r.l[1] = PyBytes("message")
         THEN [exc |-> "none", ret |-> TRUE, v |-> PyList(<<r.l[2]>> \o Tail(r.l))]
         ELSE IF r.t = "list" /\ r.l[1] = PyBytes("pmessage")
         THEN [exc |-> "none", ret |-> TRUE, v |-> PyList(Tail(r.l))]
         ELSE [exc |-> "none", ret |-> FALSE, v |-> PyNone]
    ELSE [exc |-> "none", ret |-> TRUE, v |-> PyNone]

\* `cls in subs`
InSubs(m, cls) == cls.t = "bytes" /\ cls.s \in HubKeys /\ m[cls.s] # {}

\* a variant that puts the message on one queue of the set only
Deliver_First(qs, m, r) ==
    IF InSubs(m, r.l[1])
    THEN [q \in Producers |->
             IF q = CHOOSE x \in m[r.l[1].s] : TRUE
             THEN Append(qs[q], <<r.l[2], r.l[3]>>) ELSE qs[q]]
    ELSE qs

\* a variant that puts the message on every queue, whatever the mapping says
Deliver_ToAll(qs, m, r) ==
    [q \in Producers |-> Append(qs[q], <<r.l[2], r.l[3]>>)]

\* __call__, `cls, key, msg = r`: (key, msg) is put on every queue of subs[cls]
Deliver(qs, m, r) ==
    IF InSubs(m, r.l[1])
    THEN [q \in Producers |->
             IF q \in m[r.l[1].s] THEN Append(qs[q], <<r.l[2], r.l[3]>>) ELSE qs[q]]
    ELSE qs

\* the waiting hub reads one reply: an acknowledgement is skipped and the wait goes
\* on; a message is delivered and the loop goes round
HubRecv ==
    /\ hpc = "wait"
    /\ inbox # <<>>
    /\ inbox' = Tail(inbox)
    /\ LET resp == _get_response(Head(inbox), decode_responses)
           g == get_from_subscriptions(resp.v)
       IN IF resp.exc # "none" \/ g.exc # "none" \/ (g.ret /\ Truthy(g.v) /\ Len(g.v.l) # 3)
          THEN /\ hpc' = "crashed"
               /\ woken' = FALSE
               /\ UNCHANGED <<suspended, queue, unrouted>>
          ELSE IF ~g.ret
          THEN UNCHANGED <<hpc, suspended, woken, queue, unrouted>>
          ELSE /\ hpc' = "top"
               /\ suspended' = FALSE
               /\ woken' = FALSE
               /\ queue' = IF Truthy(g.v) THEN Deliver(queue, subs, g.v) ELSE queue
               /\ unrouted' = IF Truthy(g.v) /\ ~InSubs(subs, g.v.l[1])
                               THEN unrouted + 1 ELSE unrouted
    /\ UNCHANGED <<sub_adds, sub_rms, subs, schan, spat, ppc, pcls, npub>>
    /\ UNCHANGED nonHubVars
    /\ UNCHANGED ioVars

\* the wake signal ends the wait: _get_response returns None and the loop goes round
HubWake ==
    /\ hpc = "wait"
    /\ woken
    /\ hpc' = "top"
    /\ suspended' = FALSE
    /\ woken' = FALSE
    /\ UNCHANGED <<sub_adds, sub_rms, subs, inbox, schan, spat, queue, ppc, pcls, npub, unrouted>>
    /\ UNCHANGED nonHubVars
    /\ UNCHANGED ioVars

\* the hub is built with decode_responses=False unless the caller says otherwise
InitH ==
    /\ srv = InitSrv
    /\ decode_responses = FALSE
    /\ InitTxn
    /\ InitLockIdle
    /\ InitHub
    /\ InitIo

NextH ==
    \/ \E p \in Producers, classes \in ClassLists : Subscribe(p, classes)
    \/ \E p \in Producers : Dispose(p)
    \/ \E ch \in Channels : Publish(ch)
    \/ HubDrainAdds
    \/ HubDrainRms
    \/ HubCheck
    \/ HubRecv
    \/ HubWake

SpecHub == InitH /\ [][NextH]_vars

(***************************************************************************)
(* A command connection: command methods called one after the other, the   *)
(* server answering every command it is sent with one reply.               *)
(***************************************************************************)
\* the command methods called: get, set and delete send and read; move only sends
Methods == {"get", "set", "delete", "move"}

\* the method calls _get_response after _send
Reads(method) == method # "move"

PyBool(b) == [t |-> "bool", s |-> "", n |-> IF b THEN 1 ELSE 0, l |-> <<>>]

\* what the method makes of the decoded reply: delete returns bool(resp),
\* get and set return resp
Post(method, resp) == IF method = "delete" THEN PyBool(Truthy(resp)) ELSE resp

\* the replies the server may give to a command
ServerReplies ==
    {Status("OK"), Error("ERR bad"), Integer(0), Integer(1), Bulk("v1"), NilBulk}

\* _get_response, '-': e_message = fl[1:], the text RedisError is raised with
e_message(fl) == fl.s

\* one call of a command method: _send writes the command, the server's reply to it
\* joins the replies waiting on the connection, and the method reads the first of
\* them if it reads at all
Call(method, reply) ==
    /\ nsent < MaxCalls
    /\ nsent' = nsent + 1
    /\ LET waiting == Append(pending, [no |-> nsent + 1, reply |-> reply])
           r == _get_response(Head(waiting).reply, decode_responses)
       IN IF Reads(method)
          THEN /\ pending' = Tail(waiting)
               /\ last' = [method |-> method, no |-> nsent + 1, exc |-> r.exc,
                           msg |-> IF r.exc = "RedisError"
                                   THEN e_message(Head(waiting).reply) ELSE "",
                           v |-> IF r.exc = "none" THEN Post(method, r.v) ELSE PyNone,
                           from |-> Head(waiting).no, reply |-> reply]
          ELSE /\ pending' = waiting
               /\ last' = [method |-> method, no |-> nsent + 1, exc |-> "none",
                           msg |-> "", v |-> PyNone, from |-> 0, reply |-> reply]
    /\ UNCHANGED <<nonHubVars, hubVars, codecVars, globVars>>

InitC ==
    /\ srv = InitSrv
    /\ decode_responses \in BOOLEAN
    /\ InitTxn
    /\ InitLockIdle
    /\ InitHub
    /\ InitIo

NextC == \E method \in Methods, reply \in ServerReplies : Call(method, reply)

SpecCmd == InitC /\ [][NextC]_vars

(***************************************************************************)
(* The codec on its own: the server writes a reply (or answers an ECHO of  *)
(* an encoded argument) and _get_response decodes it.                      *)
(***************************************************************************)
\* simple-string texts, the payloads of array elements, integers and the lines
\* with a leading byte of no reply kind
StatusTexts == {<<>>, <<"O", "K">>, <<" ", "O", "K">>, <<"O", "K", " ">>}
ErrorTexts == {<<"E", "R", "R">>}
IntegerValues == {-1, 0, 1, 12}
UnknownLeads == {"?", "a"}
WireElements ==
    {OnWire(Status(""), <<"O", "K">>), OnWire(Status(""), <<" ", "O", "K">>),
     OnWire(Integer(1), <<>>), OnWire(NilBulk, <<>>)}
    \union {OnWire(Bulk(""), b) : b \in {<<>>, <<"a">>, CRLF, <<"xFF">>}}
WireReplies ==
    {OnWire(Status(""), t) : t \in StatusTexts}
    \union {OnWire(Error(""), t) : t \in ErrorTexts}
    \union {OnWire(Integer(n), <<>>) : n \in IntegerValues}
    \union {OnWire(Bulk(""), b) : b \in ByteSeqs}
    \union {OnWire(NilBulk, <<>>), OnWire(NilArray, <<>>)}
    \union {OnWire(Array(e), <<>>) : e \in SeqsUpTo(WireElements, MaxLen)}
\* what may follow a reply on the connection: nothing, or the next reply
Tails == {<<>>, Wire(OnWire(Integer(1), <<>>))}

\* the arguments a command is given: bytes, integers, text
Texts == {t \in SeqsUpTo(TextChars, MaxLen) : Len(Utf8Encode(t)) <= MaxLen}
Arguments ==
    {PyBytes(b) : b \in ByteSeqs} \union {PyInt(n) : n \in {0, 1, 12}}
    \union {PyStr(t) : t \in Texts}
codecFrame == UNCHANGED <<nonHubVars, hubVars, chanVars, globVars>>

\* the server writes the reply w, and t after it
Reply(w, t) ==
    /\ cpc = "idle"
    /\ wire' = Wire(w) \o t
    /\ tail' = t
    /\ served' = w
    /\ cpc' = "replied"
    /\ UNCHANGED <<request, argument, response>>
    /\ codecFrame

\* the peer writes a line that starts with no reply kind
Garbage(c, text, t) ==
    /\ cpc = "idle"
    /\ wire' = Wire(OnWire(Unknown(c, ""), text)) \o t
    /\ tail' = t
    /\ served' = OnWire(Unknown(c, ""), text)
    /\ cpc' = "replied"
    /\ UNCHANGED <<request, argument, response>>
    /\ codecFrame

\* _send('ECHO', value)
Send(value) ==
    /\ cpc = "idle"
    /\ argument' = value
    /\ request' = _send(<<PyStr(<<"E", "C", "H", "O">>), value>>)
    /\ cpc' = "sent"
    /\ UNCHANGED <<wire, tail, served, response>>
    /\ codecFrame

\* the server answers the ECHO
Echo ==
    /\ cpc = "sent"
    /\ served' = SrvEcho(request)
    /\ wire' = Wire(SrvEcho(request))
    /\ tail' = <<>>
    /\ cpc' = "replied"
    /\ UNCHANGED <<request, argument, response>>
    /\ codecFrame

\* _get_response()
Respond ==
    /\ cpc = "replied"
    /\ response' = ReadResponse(wire, decode_responses)
    /\ wire' = ReadResponse(wire, decode_responses).rest
    /\ cpc' = "done"
    /\ UNCHANGED <<tail, request, argument, served>>
    /\ codecFrame

\* the connection is used afresh
Fresh ==
    /\ cpc = "done"
    /\ wire' = <<>>
    /\ tail' = <<>>
    /\ request' = <<>>
    /\ argument' = NoArg
    /\ served' = NoReply
    /\ response' = NoResponse
    /\ cpc' = "idle"
    /\ codecFrame

InitD ==
    /\ srv = InitSrv
    /\ decode_responses \in BOOLEAN
    /\ InitTxn
    /\ InitLockIdle
    /\ InitHub
    /\ InitIo

NextD ==
    \/ \E w \in WireReplies, t \in Tails : Reply(w, t)
    \/ \E c \in UnknownLeads, text \in StatusTexts, t \in Tails : Garbage(c, text, t)
    \/ \E value \in Arguments : Send(value)
    \/ Echo
    \/ Respond
    \/ Fresh

SpecCodec == InitD /\ [][NextD]_vars

(***************************************************************************)
(* The hub's treatment of one name: the drains of __call__ on a single     *)
(* request (name, queue), and the command each of them sends.              *)
(***************************************************************************)
globFrame == UNCHANGED <<nonHubVars, hubVars, chanVars, codecVars>>
\* the queue of the request
GlobQueue == 1
NotSubscribed(name) == [k \in {name} |-> {}]

\* the addition drain: conn.subscribe(*new_subs) or conn.psubscribe(*new_glob_subs)
GlobAdd(name) ==
    /\ gpc = "idle"
    /\ LET a == AddAll(<<<<name, GlobQueue>>>>, NotSubscribed(name), {}, {})
       IN gcmd' = IF a.new_subs # {} THEN "subscribe"
                  ELSE IF a.new_glob_subs # {} THEN "psubscribe" ELSE "none"
    /\ gname' = name
    /\ gpc' = "added"
    /\ globFrame

\* the removal drain: conn.unsubscribe(*rm_subs) or conn.punsubscribe(*rm_glob_subs)
GlobRemove ==
    /\ gpc = "added"
    /\ LET a == AddAll(<<<<gname, GlobQueue>>>>, NotSubscribed(gname), {}, {})
           r == RmAll(<<<<gname, GlobQueue>>>>, a.subs, {}, {})
       IN gcmd' = IF r.rm_subs # {} THEN "unsubscribe"
                  ELSE IF r.rm_glob_subs # {} THEN "punsubscribe" ELSE "none"
    /\ gpc' = "removed"
    /\ UNCHANGED gname
    /\ globFrame

\* the next request
GlobNext ==
    /\ gpc = "removed"
    /\ gname' = ""
    /\ gcmd' = "none"
    /\ gpc' = "idle"
    /\ globFrame

InitG ==
    /\ srv = InitSrv
    /\ decode_responses = FALSE
    /\ InitTxn
    /\ InitLockIdle
    /\ InitHub
    /\ InitIo

NextG ==
    \/ \E name \in Names : GlobAdd(name)
    \/ GlobRemove
    \/ GlobNext

SpecGlob == InitG /\ [][NextG]_vars

\* the data of the server are as they were
DataUnchanged == srv'.val = srv.val /\ srv'.ttl = srv.ttl

(***************************************************************************)
(* Properties of the lock, checked under SpecLock.                         *)
(***************************************************************************)
\* the step of client c that sends the GET of __enter__
IsEnterGet(c) == lpc[c] = "watched" /\ lpc'[c] # "watched"
\* the steps of client c that send the GET and the DEL of __exit__
IsExitGet(c) == lpc[c] = "held" /\ lpc'[c] # "held"
IsExitDel(c) == lpc[c] = "deleting" /\ lpc'[c] = "released"
\* the tokens of the other lock objects
OtherTokens(c) == {me(d) : d \in Lockers \ {c}}

C8_LeaseRenewed ==
    \A c \in Clients :
        (lpc[c] = "held" /\ srv.val[LockKey] # NoKey) =>
            srv.ttl[LockKey] >= LeaseTicks - SleepTicks

\* C8 witness: a lock held for longer than its lease, the key still storing the
\* holder's token, at the lowest time to live.
C8_Witness ==
    \E c \in Clients :
        /\ lpc[c] = "held" /\ srv.val[LockKey] = me(c)
        /\ held_ticks[c] > LeaseTicks
        /\ srv.ttl[LockKey] = LeaseTicks - SleepTicks

\* C9: release fails loudly and leaves the key alone when the GET does not return
\* the holder's token, and its DEL never removes another holder's token.
C9_ReleaseDeletesOwnTokenOnly ==
    [][\A c \in Clients :
          /\ (IsExitGet(c) /\ srv.val[LockKey] # me(c)) =>
                /\ lpc'[c] = "panicked"
                /\ raised'[c] = "AssertionError"
                /\ DataUnchanged
          /\ IsExitDel(c) => srv.val[LockKey] \notin OtherTokens(c)]_vars

\* C10 as stated: a GET that finds a value ends the attempt with LockNotAcquired
\* before WATCH, MULTI, SETEX or EXEC was sent, the key unchanged.
C10_RejectedBeforeAnyTransactionCommand ==
    [][\A c \in Clients :
          (IsEnterGet(c) /\ srv.val[LockKey] # NoKey) =>
              /\ lpc'[c] = "failed"
              /\ raised'[c] = "LockNotAcquired"
              /\ \A i \in 1..Len(cmd_log'[c]) :
                    cmd_log'[c][i] \notin {"WATCH", "MULTI", "SETEX", "EXEC"}
              /\ DataUnchanged]_vars

\* C10 amended: a GET that finds a non-empty value ends the attempt with
\* LockNotAcquired; WATCH was sent before the GET, and MULTI, SETEX and EXEC are
\* not sent; the key is unchanged.
C10_RejectedBeforeMulti ==
    [][\A c \in Clients :
          (IsEnterGet(c) /\ srv.val[LockKey] \notin {NoKey, ""}) =>
              /\ lpc'[c] = "failed"
              /\ raised'[c] = "LockNotAcquired"
              /\ cmd_log'[c] = <<"WATCH", "GET">>
              /\ DataUnchanged]_vars

\* C10 witness: an attempt was rejected by the GET while another client's token
\* was stored under the key.
C10_Witness ==
    \E c \in Clients :
        /\ lpc[c] = "failed" /\ raised[c] = "LockNotAcquired"
        /\ cmd_log[c] = <<"WATCH", "GET">>
        /\ srv.val[LockKey] \in OtherTokens(c)
        /\ srv.ttl[LockKey] > 0

(***************************************************************************)
(* Properties of the hub, checked under SpecHub.                           *)
(***************************************************************************)
\* a reply that carries a published message
IsMessage(m) == m.k = "*" /\ ~m.nil /\ m.e # <<>> /\ m.e[1].s \in {"message", "pmessage"}
\* the key a message is routed by: its channel, or the pattern that matched
RoutingKey(m) == m.e[2].s
\* the (channel, payload) a message carries
Item(m) ==
    IF m.e[1].s = "message" THEN <<PyBytes(m.e[2].s), PyBytes(m.e[3].s)>>
    ELSE <<PyBytes(m.e[3].s), PyBytes(m.e[4].s)>>
\* the hub takes reply m from its connection in this step
Received(m) == hpc = "wait" /\ inbox # <<>> /\ Head(inbox) = m /\ inbox' = Tail(inbox)
\* the number of the publish a payload came from
PayloadNo(msg) == CHOOSE n \in 1..MaxPublish : PyBytes(Payload(n)) = msg
\* the items of a queue are in the order in which they were published
InPublishOrder(items) ==
    \A i, j \in DOMAIN items : i < j => PayloadNo(items[i][2]) < PayloadNo(items[j][2])

C7_AppendWakesWaitingHub ==
    [][(hpc = "wait" /\ (sub_adds' # sub_adds \/ sub_rms' # sub_rms)) => woken']_vars

(***************************************************************************)
(* Properties of the command connection, checked under SpecCmd.            *)
(***************************************************************************)
\* C11: a call whose command the server answers with an error reply raises
\* RedisError with the server's text.
C11_ErrorReplyRaises ==
    [][(nsent' = nsent + 1 /\ last'.reply.k = "-") =>
          (last'.exc = "RedisError" /\ last'.msg = last'.reply.s)]_vars

\* C12: after every call no reply waits unread, and the call read the reply to
\* the command it sent.
C12_Lockstep == pending = <<>> /\ last.from = last.no

\* the hub takes a message whose routing key is not a key of the mapping
UnmappedMessage ==
    /\ inbox # <<>> /\ Received(Head(inbox)) /\ IsMessage(Head(inbox))
    /\ subs[RoutingKey(Head(inbox))] = {}

Extends(b, a) == Len(b) >= Len(a) /\ SubSeq(b, 1, Len(a)) = a

\* C18: a producer that enters sub or subq, or leaves it, only appends to sub_adds
\* or sub_rms and leaves the mapping as it is; the mapping changes only in a step
\* of the hub's loop.
C18_ProducersOnlyAppend ==
    [][/\ ppc' # ppc =>
             /\ subs' = subs
             /\ Extends(sub_adds', sub_adds)
             /\ Extends(sub_rms', sub_rms)
             /\ sub_adds' # sub_adds \/ sub_rms' # sub_rms
       /\ subs' # subs => ppc' = ppc /\ hpc \in {"top", "rms"} /\ hpc' # hpc]_vars

\* C18 witness: a producer has left its subscription, its removal is pending and
\* the mapping still holds its queue.
C18_Witness ==
    \E p \in Producers :
        /\ ppc[p] = "closed"
        /\ <<pcls[p][1], p>> \in Range(sub_rms)
        /\ p \in subs[pcls[p][1]]

\* the hub begins a wait for the next reply: when it enters get_from_subscriptions,
\* and again after each acknowledgement that it skips
BeginsWait ==
    /\ hpc' = "wait"
    /\ hpc = "check" \/ (hpc = "wait" /\ inbox # <<>> /\ inbox' = Tail(inbox))

\* C20: whenever the hub begins a blocking wait for the next message, both pending
\* buffers are empty.
C20_BuffersEmptyAtWait ==
    [][BeginsWait => sub_adds' = <<>> /\ sub_rms' = <<>>]_vars

\* the hub's loop is at its removal drain and takes this step
DrainsRemovals == hpc = "rms" /\ hpc' # "rms"

\* C26: whenever the hub processes the pending removals, each (channel, queue) of
\* them finds the channel in the mapping with the queue in its set: the drain
\* raises nothing and the loop goes on.
C26_RemovalFindsItsAddition ==
    [][DrainsRemovals =>
          /\ \A i \in DOMAIN sub_rms : sub_rms[i][2] \in subs[sub_rms[i][1]]
          /\ hpc' = "check"]_vars

\* the keys of the mapping
MappingKeys(m) == {k \in HubKeys : m[k] # {}}
\* the acknowledgements that this step's commands brought, and the names that
\* were sent with one of the commands in kinds
NewAcks == SubSeq(inbox', Len(inbox) + 1, Len(inbox'))
Issued(kinds) == {NewAcks[i].e[2].s : i \in {j \in DOMAIN NewAcks : NewAcks[j].e[1].s \in kinds}}
\* a step of the hub's loop that drains a buffer
HubDrains == hpc \in {"top", "rms"} /\ hpc' # hpc

\* C21: the hub sends SUBSCRIBE or PSUBSCRIBE for a name exactly when the name
\* newly appears in the mapping, and UNSUBSCRIBE or PUNSUBSCRIBE exactly when the
\* name is dropped from it, once each; and each time the hub starts to wait, the
\* names subscribed on its connection are the keys of the mapping.
C21_SubscriptionsFollowMapping ==
    [][/\ HubDrains =>
             /\ Issued({"subscribe", "psubscribe"})
                    = MappingKeys(subs') \ MappingKeys(subs)
             /\ Issued({"unsubscribe", "punsubscribe"})
                    = MappingKeys(subs) \ MappingKeys(subs')
             /\ Len(NewAcks) = Cardinality(Issued({"subscribe", "psubscribe"}))
                                + Cardinality(Issued({"unsubscribe", "punsubscribe"}))
       /\ (hpc = "check" /\ hpc' = "wait") =>
             schan' \cup spat' = MappingKeys(subs')]_vars

\* the name contains the byte c
Contains(name, c) == c \in Range(Chars(name))

\* C22: the hub treats a name as a pattern (PSUBSCRIBE, PUNSUBSCRIBE) if and only
\* if the name contains '*', or '?', or both '[' and ']'; every other name, one with
\* '[' and no ']' included, is an exact channel (SUBSCRIBE, UNSUBSCRIBE).
C22_GlobClassification ==
    gpc # "idle" =>
        /\ gcmd \in {"subscribe", "psubscribe", "unsubscribe", "punsubscribe"}
        /\ gcmd \in {"psubscribe", "punsubscribe"} <=>
               \/ Contains(gname, "*")
               \/ Contains(gname, "?")
               \/ (Contains(gname, "[") /\ Contains(gname, "]"))

\* C23: every renewal task stops at its first check after the release of its
\* acquisition, which comes within one renewal interval: once an acquisition has
\* been held for a whole renewal interval, its lock object has one renewal task
C23_OneRenewalTask ==
    \A c \in Lockers :
        (lpc[c] = "held" /\ held_ticks[c] >= SleepTicks) => TaskCount(touch[c]) <= 1

\* C24: a buffer loses requests only in the hub's drain of that buffer; the drain
\* takes the buffer whole and processes every request it takes: a request of sub_adds
\* has its queue in the mapping afterwards, a request of sub_rms has not
C24_DrainedWholeOnce ==
    [][/\ IF hpc = "top" /\ hpc' # "top"
          THEN /\ sub_adds' = <<>>
               /\ \A i \in DOMAIN sub_adds : sub_adds[i][2] \in subs'[sub_adds[i][1]]
          ELSE Extends(sub_adds', sub_adds)
       /\ IF hpc = "rms" /\ hpc' # "rms"
          THEN /\ sub_rms' = <<>>
               /\ \A i \in DOMAIN sub_rms : sub_rms[i][2] \notin subs'[sub_rms[i][1]]
          ELSE Extends(sub_rms', sub_rms)]_vars

\* an acquisition succeeds: the EXEC of the attempt stores the token
Acquires(c) == lpc[c] = "queued" /\ lpc'[c] = "held"

\* C25: an acquisition stores a token that no earlier acquisition has stored, also
\* when the earlier acquisition was made through the same lock object
C25_FreshToken ==
    [][\A c \in Lockers : Acquires(c) => srv'.val[LockKey] \notin seen]_vars

\* C27: an attempt that began with the key absent, and during which no other client
\* has written the key, is not rejected at its EXEC, whatever the connection was
\* used for before
C27_NoSpuriousRejection ==
    [][\A c \in Lockers :
          (lpc[c] = "queued" /\ lpc'[c] # "queued" /\ clean[c]) => lpc'[c] = "held"]_vars

(***************************************************************************)
(* The codec.                                                              *)
(***************************************************************************)
ReplyKinds == {"+", "-", ":", "$", "*"}
\* _get_response has returned for a reply the server wrote on its own
Decoded_(kind) == cpc = "done" /\ argument = NoArg /\ served.k = kind

\* C13: decoding a reply line whose first byte is none of '+', '-', ':', '$', '*'
\* ends in an error; no value (and so no None) is returned for it
C13_UnknownKindRaises ==
    (cpc = "done" /\ served.k \notin ReplyKinds) => response.exc # "none"

\* the empty value of the client's configuration: b'' or, with decode_responses, ''
Empty == IF decode_responses THEN PyStr("") ELSE PyBytes("")
\* every payload and text of the array can be decoded in the charset
Decodable(w) ==
    \A i \in DOMAIN w.e : w.e[i].k \in {"$", "+"} /\ ~w.e[i].nil => Utf8Decode(w.e[i].s).ok

\* C14: '$-1' decodes to None and '$0' with an empty payload to an empty value that
\* is not None; '*-1' decodes to None and '*0' to an empty list that is not None; a
\* '$-1' element of an array decodes to a None element and the list keeps the
\* array's length
C14_NilDistinct ==
    /\ Decoded_("$") /\ served.nil => response.exc = "none" /\ response.v = PyNone
    /\ Decoded_("$") /\ ~served.nil /\ served.s = <<>> =>
           response.exc = "none" /\ response.v = Empty /\ response.v # PyNone
    /\ Decoded_("*") /\ served.nil => response.exc = "none" /\ response.v = PyNone
    /\ Decoded_("*") /\ ~served.nil /\ served.e = <<>> =>
           response.exc = "none" /\ response.v = PyList(<<>>) /\ response.v # PyNone
    /\ Decoded_("*") /\ ~served.nil /\ (~decode_responses \/ Decodable(served)) =>
           /\ response.exc = "none"
           /\ response.v.t = "list"
           /\ Len(response.v.l) = Len(served.e)
           /\ \A i \in DOMAIN served.e :
                  (response.v.l[i] = PyNone) <=> (served.e[i].k = "$" /\ served.e[i].nil)
C14_Witness ==
    /\ Decoded_("*")
    /\ served.e = <<OnWire(NilBulk, <<>>), OnWire(Bulk(""), <<>>)>>
    /\ response.v = PyList(<<PyNone, Empty>>)

\* an element decoded by its own kind: an integer as its number, a bulk string as
\* its bytes (None for '$-1'), a simple string as its text
ByKind(w) ==
    IF w.k = ":" THEN PyInt(w.n)
    ELSE IF w.k = "$" /\ w.nil THEN PyNone
    ELSE PyBytes(ToStr(w.s))

\* C15: an array reply of count simple strings, integers and bulk strings decodes
\* (decode_responses off) to a list of count elements in wire order, each decoded by
\* its own kind, and exactly the bytes of the reply are consumed
C15_ArrayDecode ==
    Decoded_("*") /\ ~served.nil /\ ~decode_responses =>
        /\ response.exc = "none"
        /\ response.v = PyList([i \in DOMAIN served.e |-> ByKind(served.e[i])])
        /\ response.rest = tail

\* the byte content of an argument: bytes themselves, the decimal digits of an
\* integer, the bytes of a text in the charset
Content(value) ==
    IF value.t = "bytes" THEN value.s
    ELSE IF value.t = "int" THEN IntDigits(value.n)
    ELSE Utf8Encode(value.s)
\* the command is written with the argument as a bulk element whose length prefix
\* is the number of bytes of its content
LengthPrefixed ==
    request = <<"*", "2">> \o CRLF \o <<"$", "4">> \o CRLF \o <<"E", "C", "H", "O">> \o CRLF
              \o <<"$">> \o NatDigits(Len(Content(argument))) \o CRLF
              \o Content(argument) \o CRLF
Echoed == cpc = "done" /\ argument # NoArg

\* C16 as stated: the echo of every encoded argument decodes to exactly the byte
\* content of the argument, and the length prefix is the number of payload bytes
C16_EchoReturnsBytes ==
    Echoed => /\ LengthPrefixed
              /\ response.exc = "none"
              /\ response.v = PyBytes(ToStr(Content(argument)))

\* C16: the length prefix is the number of payload bytes; with decode_responses off
\* the echo decodes to exactly the byte content of the argument; with it on, to the
\* text those bytes encode, and to a UnicodeDecodeError when they encode none
C16_EchoRoundTrip ==
    Echoed =>
        /\ LengthPrefixed
        /\ ~decode_responses =>
               response.exc = "none" /\ response.v = PyBytes(ToStr(Content(argument)))
        /\ decode_responses /\ Utf8Decode(Content(argument)).ok =>
               /\ response.exc = "none"
               /\ response.v = PyStr(ToStr(Utf8Decode(Content(argument)).text))
               /\ Utf8Encode(Utf8Decode(Content(argument)).text) = Content(argument)
        /\ decode_responses /\ ~Utf8Decode(Content(argument)).ok =>
               response.exc = "UnicodeDecodeError"
C16_Witness ==
    /\ Echoed
    /\ ~decode_responses
    /\ argument = PyBytes(<<"a", CR>> )
    /\ served.s = <<"a", CR>>
    /\ response.v = PyBytes("a\r")
C16_WitnessUndecodable ==
    /\ Echoed
    /\ decode_responses
    /\ argument = PyBytes(<<"xFF">>)
    /\ response.exc = "UnicodeDecodeError"

(***************************************************************************)
(* Properties of the transaction scope, checked under SpecTxn.             *)
(***************************************************************************)
\* the step of client c that leaves the scope normally (EXEC)
IsExec(c) == tpc[c] = "body" /\ tpc'[c] = "done"
\* the step of client c that leaves the scope with the body's exception (DISCARD)
IsDiscard(c) == tpc[c] = "raising" /\ tpc'[c] = "done"
\* the step of client c that queues a command
IsQueue(c) == tpc[c] = "body" /\ body_cmds'[c] # body_cmds[c]

\* C2: if a watched key was changed by another client after WATCH and before
\* EXEC, the commit reports the abort (RedisTransactionError, aborted = True,
\* value = None) and neither queuing the commands nor the EXEC changes the data.
C2_WatchedChangeAborts ==
    [][\A c \in Transactors :
          /\ (IsExec(c) /\ modified[c]) =>
                /\ t_aborted'[c]
                /\ t_value'[c] = PyNone
                /\ raised'[c] = "RedisTransactionError"
                /\ DataUnchanged
          /\ IsQueue(c) => DataUnchanged]_vars

\* C2 witness: a scope that queued a write was left by EXEC after another client
\* changed a watched key, and reported the abort.
C2_Witness ==
    \E c \in Transactors :
        /\ tpc[c] = "done" /\ modified[c] /\ t_aborted[c]
        /\ cmd_log[c] # <<>> /\ cmd_log[c][Len(cmd_log[c])] = "EXEC"
        /\ \E i \in 1..Len(body_cmds[c]) : body_cmds[c][i] \in WriteCmds

\* C3: when the body raises after MULTI, the scope exit sends DISCARD and never
\* EXEC, the body's exception leaves the scope unchanged, value stays None, and
\* the queued commands neither have changed the data nor remain queued.
C3_FaultDiscards ==
    [][\A c \in Transactors :
          /\ IsDiscard(c) =>
                /\ cmd_log'[c] = Append(cmd_log[c], "DISCARD")
                /\ \A i \in 1..Len(cmd_log'[c]) : cmd_log'[c][i] # "EXEC"
                /\ raised'[c] = body_exc[c]
                /\ raised'[c] \in BodyFaults
                /\ t_value'[c] = PyNone
                /\ DataUnchanged
                /\ srv'.queued[c] = <<>>
                /\ ~srv'.multi[c]
          /\ IsQueue(c) => DataUnchanged]_vars

\* C3 witness: a scope whose body queued a write and then raised has been left.
C3_Witness ==
    \E c \in Transactors :
        /\ tpc[c] = "done" /\ body_exc[c] = "KeyError" /\ raised[c] = "KeyError"
        /\ \E i \in 1..Len(body_cmds[c]) : body_cmds[c][i] \in WriteCmds

\* the value key k has when command i of the queue runs, given the store before EXEC
ValueBefore(val, cmds, i, k) ==
    LET prior == {j \in 1..(i - 1) : cmds[j].key = k /\ cmds[j] \in WriteCmds}
    IN IF prior = {} THEN val[k]
       ELSE LET j == CHOOSE x \in prior : \A y \in prior : y <= x
            IN IF cmds[j].name = "SET" THEN cmds[j].arg ELSE NoKey

\* bytes, or text when decode_responses is set
PyText(s) == IF decode_responses THEN PyStr(s) ELSE PyBytes(s)

\* the result of command i of the queue
ExpectedResult(val, cmds, i) ==
    LET before == ValueBefore(val, cmds, i, cmds[i].key)
    IN IF cmds[i].name = "SET" THEN PyText("OK")
       ELSE IF cmds[i].name = "GET"
       THEN IF before = NoKey THEN PyNone ELSE PyText(before)
       ELSE PyInt(IF before = NoKey THEN 0 ELSE 1)

\* C4: a normal exit sends EXEC; a nil reply always reports the abort with
\* RedisTransactionError, and any non-nil reply (an empty array too) is a commit
\* whose value holds the results of the queued commands in the order queued.
C4_CommitOutcome ==
    [][\A c \in Transactors :
          IsExec(c) =>
             /\ cmd_log'[c] = Append(cmd_log[c], "EXEC")
             /\ IF SrvExec(srv, c).reply.nil
                THEN /\ t_aborted'[c]
                     /\ raised'[c] = "RedisTransactionError"
                     /\ t_value'[c] = PyNone
                ELSE /\ ~t_aborted'[c]
                     /\ raised'[c] = "none"
                     /\ t_value'[c].t = "list"
                     /\ Len(t_value'[c].l) = Len(body_cmds[c])
                     /\ \A i \in 1..Len(body_cmds[c]) :
                           t_value'[c].l[i] = ExpectedResult(srv.val, body_cmds[c], i)]_vars

\* C4 witness: a commit of two commands of different kinds, and a commit of none.
C4_Witness ==
    \E c \in Transactors :
        /\ tpc[c] = "done" /\ ~t_aborted[c] /\ raised[c] = "none"
        /\ t_value[c].t = "list"
        /\ Len(t_value[c].l) = MaxQueued
        /\ t_value[c].l[1].t = "int" /\ t_value[c].l[1].n = 1
        /\ t_value[c].l[MaxQueued].t = "None"

\* C4 witness of the empty commit: EXEC of an empty queue is reported as a commit.
C4_WitnessEmpty ==
    \E c \in Transactors :
        tpc[c] = "done" /\ ~t_aborted[c] /\ t_value[c] = PyList(<<>>)

\* the WATCH of a transaction: one for its keys, none when it has no keys
WatchPart(c) == IF t_watching[c] # {} THEN <<"WATCH">> ELSE <<>>
\* the names of the commands queued in the scope, in order
QueuedNames(c) == [i \in 1..Len(body_cmds[c]) |-> body_cmds[c][i].name]

\* C19: a transaction sends WATCH for its keys (no WATCH when it has none) and then
\* MULTI; its scope is left by one EXEC or one DISCARD, sent once; no WATCH follows
\* its MULTI.  The server watches the supplied keys from the WATCH on and has the
\* MULTI open exactly while the scope is.
C19_CommandOrder ==
    \A c \in Transactors :
        /\ tpc[c] = "idle" => cmd_log[c] = <<>>
        /\ tpc[c] = "created" => cmd_log[c] = WatchPart(c)
        /\ tpc[c] \in {"body", "raising"} =>
               cmd_log[c] = WatchPart(c) \o <<"MULTI">> \o QueuedNames(c)
        /\ tpc[c] = "done" =>
               \E end \in {"EXEC", "DISCARD"} :
                   cmd_log[c] = WatchPart(c) \o <<"MULTI">> \o QueuedNames(c) \o <<end>>
        /\ \A i \in DOMAIN body_cmds[c] :
               body_cmds[c][i].name \notin {"WATCH", "MULTI", "EXEC", "DISCARD"}
        /\ tpc[c] \in {"created", "body", "raising"} => srv.watching[c] = t_watching[c]
        /\ srv.multi[c] <=> tpc[c] \in {"body", "raising"}

\* C19 witness: a transaction without keys has queued a command and was left by
\* EXEC: MULTI, the command, EXEC, and no WATCH.
C19_Witness ==
    \E c \in Transactors :
        /\ tpc[c] = "done"
        /\ t_watching[c] = {}
        /\ cmd_log[c] = <<"MULTI", "SET", "EXEC">>

====
